---- MODULE Spec2Model ----
(***************************************************************************)
(* A model of django-hatchway's ApiView (hatchway/view.py): registration   *)
(* (compile), and the request pipeline of ApiView.__call__ together with   *)
(* the authentication backends (hatchway/auth.py) and the permission       *)
(* checks (hatchway/permissions.py) it calls.                              *)
(*                                                                         *)
(* Python strings that the code takes apart (request keys, raw values) are *)
(* sequences of one-character strings: "a[b]" is <<"a","[","b","]">>.      *)
(* Python values are tagged records [k |-> kind, v |-> payload].           *)
(***************************************************************************)
EXTENDS Integers, Sequences, FiniteSets, TLC

VARIABLES
    view,       \* the ApiView object: its configuration and compiled state
    db,         \* the database: auth tokens and the users' permissions
    now,        \* the clock read by timezone.now()
    calls,      \* one record per in-flight ApiView.__call__ (its locals)
    direct      \* a direct call of one of ApiView's class methods

vars == <<view, db, now, calls, direct>>

----------------------------------------------------------------------------
(* Bounds *)

\* the longest list of values one query-string key is given
MaxRepeat == 2
\* the clock runs from 0 to MaxTime
MaxTime == 2
\* the most keys of one multi-map given to get_values
MaxKeys == 2
\* the most objects a handler returns in one collection
MaxItems == 2

----------------------------------------------------------------------------
(* Python values *)

NoneV == [k |-> "none", v |-> 0]
StrV(s) == [k |-> "str", v |-> s]
IntV(n) == [k |-> "int", v |-> n]
ListV(xs) == [k |-> "list", v |-> xs]
DictV(d) == [k |-> "dict", v |-> d]
FileV(f) == [k |-> "file", v |-> f]
\* what a handler may return besides: a tuple, a set, a persistence-layer
\* object with its attributes, a Schema instance with its fields
TupleV(xs) == [k |-> "tuple", v |-> xs]
SetV(S) == [k |-> "set", v |-> S]
ModelV(attrs) == [k |-> "model", v |-> attrs]
StructV(fields) == [k |-> "struct", v |-> fields]

EmptyDict == [x \in {} |-> NoneV]

\* d with key set to val (dict item assignment)
DictSet(d, key, val) ==
    [x \in (DOMAIN d) \cup {key} |-> IF x = key THEN val ELSE d[x]]

\* dict.update
DictUpdate(d, e) ==
    [x \in (DOMAIN d) \cup (DOMAIN e) |-> IF x \in DOMAIN e THEN e[x] ELSE d[x]]

\* dict.get(key, None)
DictGet(d, key) == IF key \in DOMAIN d THEN d[key] ELSE NoneV

----------------------------------------------------------------------------
(* Python string operations, on sequences of characters *)

\* c in s
Contains(s, c) == \E i \in 1..Len(s) : s[i] = c

\* the characters of s before the first c (all of s when c is not in s)
UpTo(s, c) ==
    IF Contains(s, c)
    THEN SubSeq(s, 1, (CHOOSE i \in 1..Len(s) :
                          s[i] = c /\ \A j \in 1..(i - 1) : s[j] # c) - 1)
    ELSE s

RECURSIVE Split(_, _)
\* s.split(c)
Split(s, c) ==
    IF Contains(s, c)
    THEN <<UpTo(s, c)>> \o Split(SubSeq(s, Len(UpTo(s, c)) + 2, Len(s)), c)
    ELSE <<s>>

RECURSIVE RStrip(_, _)
\* s.rstrip(c)
RStrip(s, c) ==
    IF s # <<>> /\ s[Len(s)] = c THEN RStrip(SubSeq(s, 1, Len(s) - 1), c) ELSE s

----------------------------------------------------------------------------
(* ApiView.get_values *)

\* A QueryDict, MultiValueDict or dict is [qd |-> is it a QueryDict,
\* items |-> its keys in order, each with the list of its values]; a plain
\* dict gives every key one value.

RECURSIVE Walk(_, _, _, _)
\* The loop over parts[1:] and the final store. target is the container the
\* code holds; the result is that container after the store. ok is FALSE when
\* the code raises: setdefault on a list or a string (AttributeError), item
\* assignment on a string (TypeError).
Walk(target, last_key, parts, value) ==
    IF parts = <<>>
    THEN IF target.k = "list"
         THEN [ok |-> TRUE,
               val |-> ListV(target.v \o (IF value.k = "list" THEN value.v
                                          ELSE <<value>>))]
         ELSE IF target.k = "dict"
         THEN [ok |-> TRUE, val |-> DictV(DictSet(target.v, last_key, value))]
         ELSE [ok |-> FALSE, val |-> target]
    ELSE LET part == RStrip(Head(parts), "]")
             fresh == IF part = <<>> THEN ListV(<<>>) ELSE DictV(EmptyDict)
         IN  IF target.k # "dict"
             THEN [ok |-> FALSE, val |-> target]
             ELSE LET child == IF last_key \in DOMAIN target.v
                               THEN target.v[last_key] ELSE fresh
                      sub == Walk(child,
                                  IF part = <<>> THEN last_key ELSE part,
                                  Tail(parts), value)
                  IN  IF sub.ok
                      THEN [ok |-> TRUE,
                            val |-> DictV(DictSet(target.v, last_key, sub.val))]
                      ELSE [ok |-> FALSE, val |-> target]

\* the value one item contributes: the last value of the key, or the list of
\* all its values when a QueryDict holds more than one
ItemValue(data, item) ==
    IF data.qd /\ Len(item.vals) > 1
    THEN ListV(item.vals)
    ELSE item.vals[Len(item.vals)]

RECURSIVE GetValuesLoop(_, _, _, _)
GetValuesLoop(data, i, result, use_square_brackets) ==
    IF i > Len(data.items) THEN [raised |-> FALSE, d |-> result]
    ELSE LET item  == data.items[i]
             key   == item.key
             value == ItemValue(data, item)
         IN  IF Contains(key, "[") /\ use_square_brackets
             THEN LET parts == Split(key, "[")
                      w == Walk(DictV(result), parts[1], Tail(parts), value)
                  IN  IF w.ok
                      THEN GetValuesLoop(data, i + 1, w.val.v, use_square_brackets)
                      ELSE [raised |-> TRUE, d |-> result]
             ELSE GetValuesLoop(data, i + 1, DictSet(result, key, value),
                                use_square_brackets)

get_values(data) == GetValuesLoop(data, 1, EmptyDict, TRUE)

----------------------------------------------------------------------------
(* Type annotations and ApiView.sources_for_input *)

\* A parameter's annotation is [sig |-> signifier or "none", ty |-> type]:
\* Query[int] is [sig |-> "Query", ty |-> "int"]. The types are int, list (a
\* list[str]), Schema (a Schema subclass with one required int field n),
\* File (django.core.files.File), OptFile (File | None) and HttpRequest.
Signifiers ==
    {"none", "Query", "Body", "BodyDirect", "Path", "File", "QueryOrBody",
     "PathOrQuery"}
InputTypes == {"int", "list", "Schema", "File", "OptFile"}
CollectionTypes == {"list"}
\* the field names of the Schema class, all required ints
SchemaFields == {<<"n">>}

extract_signifier(annotation) == <<annotation.sig, annotation.ty>>
is_model_subclass(ty) == ty = "Schema"
is_optional(ty) == IF ty = "OptFile" THEN <<TRUE, "File">> ELSE <<FALSE, ty>>
acceptable_input(annotation) == annotation.ty \in InputTypes

\* a classifier that looks at the file type before any signifier
sources_file_first(annotation) ==
    LET signifier  == extract_signifier(annotation)[1]
        input_type == extract_signifier(annotation)[2]
        ret(srcs)  == [raised |-> FALSE, sources |-> srcs, ty |-> input_type]
    IN  IF input_type = "File" \/ is_optional(input_type)[2] = "File"
        THEN ret(<<"file">>)
        ELSE IF signifier = "BodyDirect" /\ ~is_model_subclass(input_type)
        THEN [raised |-> TRUE, sources |-> <<>>, ty |-> input_type]
        ELSE ret(CASE signifier = "Query" -> <<"query">>
                   [] signifier = "Body" -> <<"body">>
                   [] signifier = "BodyDirect" -> <<"body_direct">>
                   [] signifier = "Path" -> <<"path">>
                   [] signifier = "File" -> <<"file">>
                   [] signifier = "QueryOrBody" -> <<"query", "body">>
                   [] OTHER -> <<"path", "query">>)

\* [raised |-> the ValueError of BodyDirect on a non-Schema, sources, ty]
sources_for_input(annotation) ==
    LET signifier  == extract_signifier(annotation)[1]
        input_type == extract_signifier(annotation)[2]
        ret(srcs)  == [raised |-> FALSE, sources |-> srcs, ty |-> input_type]
    IN  IF signifier = "Query" THEN ret(<<"query">>)
        ELSE IF signifier = "Body" THEN ret(<<"body">>)
        ELSE IF signifier = "BodyDirect"
        THEN IF ~is_model_subclass(input_type)
             THEN [raised |-> TRUE, sources |-> <<>>, ty |-> input_type]
             ELSE ret(<<"body_direct">>)
        ELSE IF signifier = "Path" THEN ret(<<"path">>)
        ELSE IF \/ signifier = "File"
                \/ input_type = "File"
                \/ is_optional(input_type)[2] = "File"
        THEN ret(<<"file">>)
        ELSE IF signifier = "QueryOrBody" THEN ret(<<"query", "body">>)
        ELSE IF signifier = "PathOrQuery" THEN ret(<<"path", "query">>)
        ELSE IF is_model_subclass(input_type) THEN ret(<<"body">>)
        ELSE IF input_type \in CollectionTypes THEN ret(<<"query_list">>)
        ELSE ret(<<"path", "query">>)

----------------------------------------------------------------------------
(* ApiView.compile *)

\* x in the sequence xs
InSeq(x, xs) == \E i \in 1..Len(xs) : xs[i] = x

\* [y for y in xs if y != x]
RECURSIVE Without(_, _)
Without(xs, x) ==
    IF xs = <<>> THEN <<>>
    ELSE (IF Head(xs) = x THEN <<>> ELSE <<Head(xs)>>) \o Without(Tail(xs), x)

\* The first loop of compile over input_types, a sequence of
\* [name, annotation]; acc holds the loop's variables.
CompileStart ==
    [raised |-> FALSE, names |-> <<>>, sources |-> EmptyDict,
     amount_from_body |-> 0, model_dict |-> <<>>, input_files |-> {},
     last_body_type |-> "none"]

RECURSIVE CompileLoop(_, _, _)
CompileLoop(input_types, i, acc) ==
    IF i > Len(input_types) \/ acc.raised THEN acc
    ELSE LET name == input_types[i].name
             ann  == input_types[i].annotation
             sfi  == sources_for_input(ann)
             from_body == InSeq("body", sfi.sources)
             is_file   == InSeq("file", sfi.sources)
         IN  IF ann.ty = "HttpRequest"
             THEN CompileLoop(input_types, i + 1, acc)
             ELSE IF ~acceptable_input(ann) \/ sfi.raised
             THEN [acc EXCEPT !.raised = TRUE]
             ELSE CompileLoop(input_types, i + 1,
                    [raised |-> FALSE,
                     names |-> Append(acc.names, name),
                     sources |-> DictSet(acc.sources, name, sfi.sources),
                     amount_from_body |->
                         acc.amount_from_body + (IF from_body THEN 1 ELSE 0),
                     last_body_type |->
                         IF from_body THEN sfi.ty ELSE acc.last_body_type,
                     input_files |->
                         IF is_file THEN acc.input_files \cup {name}
                         ELSE acc.input_files,
                     model_dict |->
                         IF is_file THEN acc.model_dict
                         ELSE Append(acc.model_dict,
                                     [name |-> name, ty |-> sfi.ty])])

\* a promotion that does not count the parameters that read the body
PromoteAny(acc) ==
    [name \in DOMAIN acc.sources |->
        IF InSeq("body", acc.sources[name])
           /\ is_model_subclass(acc.last_body_type)
        THEN Append(Without(acc.sources[name], "body"), "body_direct")
        ELSE acc.sources[name]]

\* the single-body promotion, lines 272-281
Promote(acc) ==
    IF acc.amount_from_body = 1
    THEN [name \in DOMAIN acc.sources |->
            IF InSeq("body", acc.sources[name])
               /\ is_model_subclass(acc.last_body_type)
            THEN Append(Without(acc.sources[name], "body"), "body_direct")
            ELSE acc.sources[name]]
    ELSE acc.sources

\* compile: [raised, names (the keys of self.sources in order), sources,
\* input_files, input_model (the fields of the msgspec struct, each Optional)]
compile(input_types) ==
    LET acc == CompileLoop(input_types, 1, CompileStart)
    IN  [raised |-> acc.raised,
         names |-> acc.names,
         sources |-> IF acc.raised THEN acc.sources ELSE Promote(acc),
         input_files |-> acc.input_files,
         input_model |-> acc.model_dict]

----------------------------------------------------------------------------
(* Requests *)

\* A request is a record
\*   method, content_type : strings
\*   kwargs  : the path's captured keyword arguments, a dict
\*   GET     : the query string as QueryDict items
\*   form    : the form fields of the body as QueryDict items
\*   files   : the uploaded files of the body as MultiValueDict items
\*   json    : the body read as JSON: [k |-> "blank"], [k |-> "invalid"],
\*             [k |-> "object", items |-> ...] or [k |-> "other"] (valid JSON
\*             that is not an object)
\*   authorization : the Authorization header ("" when missing)
\*   user    : request.user, "noattr" when the attribute is not set, "anon"
\*             for an AnonymousUser, else a user

FormTypes == {"multipart/form-data", "application/x-www-form-urlencoded"}

\* request.POST and request.FILES as Django fills them: only for a POST
\* request whose body is a form
RequestPOST(request) ==
    [qd |-> TRUE,
     items |-> IF request.method = "POST" /\ request.content_type \in FormTypes
               THEN request.form ELSE <<>>]
RequestFILES(request) ==
    [qd |-> FALSE,
     items |-> IF request.method = "POST"
                  /\ request.content_type = "multipart/form-data"
               THEN request.files ELSE <<>>]

----------------------------------------------------------------------------
(* hatchway/auth.py and hatchway/permissions.py *)

Users == {"u1", "u2"}
NoUser == "None"

\* "Token " and the prefix test of line 39
TokenPrefix == <<"T", "o", "k", "e", "n", " ">>
StartsWith(s, prefix) ==
    Len(s) >= Len(prefix) /\ SubSeq(s, 1, Len(prefix)) = prefix

SessionAuthBackend_authenticate(request) ==
    IF request.user # "noattr" /\ request.user \in Users
    THEN request.user ELSE NoUser

\* AuthToken.is_expired, models.py 39-41, at the time t
is_expired(tok, t) == t > tok.expires_at

\* a lookup by the key alone
TokenLookupByKey(tokens, token, t) ==
    {tok \in tokens : tok.key = token}

\* AuthToken.objects.get(key=token, expires_at__gt=timezone.now())
TokenLookup(tokens, token, t) ==
    {tok \in tokens : tok.key = token /\ tok.expires_at > t}

TokenAuthBackend_authenticate(request, tokens, t) ==
    LET auth_header == request.authorization
    IN  IF ~StartsWith(auth_header, TokenPrefix) THEN NoUser
        ELSE LET token == SubSeq(auth_header, 7, Len(auth_header))
                 found == TokenLookup(tokens, token, t)
             IN  IF found = {} THEN NoUser
                 ELSE (CHOOSE tok \in found : TRUE).user

backend_authenticate(backend, request, tokens, t) ==
    IF backend = "SessionAuthBackend"
    THEN SessionAuthBackend_authenticate(request)
    ELSE TokenAuthBackend_authenticate(request, tokens, t)

\* settings.HATCHWAY_AUTH_BACKENDS is not set: the default of lines 66-69
DefaultBackends == <<"SessionAuthBackend", "TokenAuthBackend">>

\* backend_paths is a list of backend classes, or <<>> for None
get_backends(backend_paths) ==
    IF backend_paths # <<>> THEN backend_paths ELSE DefaultBackends

RECURSIVE AuthLoopLast(_, _, _, _, _, _)
\* a loop that asks every backend and keeps the last user returned
AuthLoopLast(request, backends, i, tokens, t, consulted) ==
    IF i > Len(backends)
    THEN [user |-> NoUser, backend_name |-> "None", consulted |-> consulted]
    ELSE LET user == backend_authenticate(backends[i], request, tokens, t)
             rest == AuthLoopLast(request, backends, i + 1, tokens, t,
                                  Append(consulted, backends[i]))
         IN  IF rest.user = NoUser /\ user # NoUser
             THEN [user |-> user, backend_name |-> backends[i],
                   consulted |-> rest.consulted]
             ELSE rest

RECURSIVE AuthLoop(_, _, _, _, _, _)
\* the loop of authenticate_request; consulted lists the backends asked
AuthLoop(request, backends, i, tokens, t, consulted) ==
    IF i > Len(backends)
    THEN [user |-> NoUser, backend_name |-> "None", consulted |-> consulted]
    ELSE LET user == backend_authenticate(backends[i], request, tokens, t)
         IN  IF user # NoUser
             THEN [user |-> user, backend_name |-> backends[i],
                   consulted |-> Append(consulted, backends[i])]
             ELSE AuthLoop(request, backends, i + 1, tokens, t,
                           Append(consulted, backends[i]))

authenticate_request(request, backends, tokens, t) ==
    AuthLoop(request, backends, 1, tokens, t, <<>>)

\* user.has_perm(permission)
has_perm(perms, user, permission) == permission \in perms[user]

\* a check that lets a request without a user through
require_nothing(user) == <<TRUE, "None">>

\* <<success, error>>
require_authentication(user) ==
    IF user = NoUser THEN <<FALSE, "authentication_required">>
    ELSE <<TRUE, "None">>

\* a check that is content with one of the permissions
check_any_permission(perms, user, permissions) ==
    IF user = NoUser THEN <<FALSE, "authentication_required">>
    ELSE IF \A i \in 1..Len(permissions) : ~has_perm(perms, user, permissions[i])
    THEN <<FALSE, "permission_denied">>
    ELSE <<TRUE, "None">>

\* a check that answers permission_denied when there is no user
check_permissions_denied(perms, user, permissions) ==
    IF user = NoUser
       \/ \E i \in 1..Len(permissions) : ~has_perm(perms, user, permissions[i])
    THEN <<FALSE, "permission_denied">>
    ELSE <<TRUE, "None">>

check_permissions(perms, user, permissions) ==
    IF user = NoUser THEN <<FALSE, "authentication_required">>
    ELSE IF \E i \in 1..Len(permissions) : ~has_perm(perms, user, permissions[i])
    THEN <<FALSE, "permission_denied">>
    ELSE <<TRUE, "None">>

----------------------------------------------------------------------------
(* msgspec.convert(values, type=self.input_model, strict=False) *)

Digits == <<"0", "1", "2", "3", "4", "5", "6", "7", "8", "9">>
IsDigit(c) == \E i \in 1..10 : Digits[i] = c
DigitValue(c) == (CHOOSE i \in 1..10 : Digits[i] = c) - 1
IsNumeral(s) == s # <<>> /\ \A i \in 1..Len(s) : IsDigit(s[i])

RECURSIVE ParseInt(_)
ParseInt(s) ==
    IF s = <<>> THEN 0
    ELSE 10 * ParseInt(SubSeq(s, 1, Len(s) - 1)) + DigitValue(s[Len(s)])

\* One value against the base type int, in lax mode: a numeral string
\* becomes the int.
CoerceInt(value) ==
    IF value.k = "int" THEN [ok |-> TRUE, val |-> value]
    ELSE IF value.k = "str" /\ IsNumeral(value.v)
    THEN [ok |-> TRUE, val |-> IntV(ParseInt(value.v))]
    ELSE [ok |-> FALSE, val |-> value]

\* One value against Optional[ty]: None passes; a list[str] takes a list of
\* strings; the Schema takes a dict holding every field, each an int, and
\* drops the keys it does not declare.
Coerce(value, ty) ==
    IF value.k = "none" THEN [ok |-> TRUE, val |-> value]
    ELSE IF ty = "int" THEN CoerceInt(value)
    ELSE IF ty = "list"
    THEN [ok |-> value.k = "list"
                 /\ \A i \in 1..Len(value.v) : value.v[i].k = "str",
          val |-> value]
    ELSE IF ty = "Schema"
    THEN IF value.k = "dict"
            /\ \A f \in SchemaFields :
                  f \in DOMAIN value.v /\ CoerceInt(value.v[f]).ok
         THEN [ok |-> TRUE,
               val |-> DictV([f \in SchemaFields |-> CoerceInt(value.v[f]).val])]
         ELSE [ok |-> FALSE, val |-> value]
    ELSE [ok |-> FALSE, val |-> value]

\* [ok |-> FALSE] is msgspec.ValidationError; otherwise instance holds the
\* struct's fields
msgspec_convert(values, input_model) ==
    LET field(i) == input_model[i]
        one(i) == Coerce(DictGet(values, field(i).name), field(i).ty)
        ok == \A i \in 1..Len(input_model) : one(i).ok
        names == {field(i).name : i \in 1..Len(input_model)}
    IN  [ok |-> ok,
         instance |->
            IF ok
            THEN [n \in names |->
                    one(CHOOSE i \in 1..Len(input_model) : field(i).name = n).val]
            ELSE EmptyDict]

----------------------------------------------------------------------------
(* ApiView.__call__, lines 337-419: extraction, merge, validation *)

\* The maps the merge loop reads. raised is TRUE when building them raises:
\* get_values on a malformed key, json.loads on an invalid body, or
\* get_values on a JSON value that has no items().
ExtractMaps(request) ==
    LET query_values == get_values([qd |-> TRUE, items |-> request.GET])
        reparse  == request.method \in {"PATCH", "PUT"}
        as_multi == reparse /\ request.content_type = "multipart/form-data"
        as_form  == reparse
                    /\ request.content_type = "application/x-www-form-urlencoded"
        post_values  == get_values(RequestPOST(request))
        file_values  == get_values(RequestFILES(request))
        form_values  == get_values([qd |-> TRUE, items |-> request.form])
        mfile_values == get_values([qd |-> FALSE, items |-> request.files])
        body0  == IF as_multi \/ as_form THEN form_values ELSE post_values
        files0 == IF as_multi THEN mfile_values ELSE file_values
        load_json == request.content_type = "application/json"
                     /\ request.json.k # "blank"
        json_values ==
            IF load_json /\ request.json.k = "object"
            THEN get_values([qd |-> FALSE, items |-> request.json.items])
            ELSE [raised |-> load_json, d |-> EmptyDict]
    IN  [raised |-> \/ query_values.raised \/ post_values.raised
                    \/ file_values.raised
                    \/ (as_multi /\ (form_values.raised \/ mfile_values.raised))
                    \/ (as_form /\ form_values.raised)
                    \/ json_values.raised,
         kwargs |-> request.kwargs,
         query  |-> query_values.d,
         body   |-> IF load_json THEN DictUpdate(body0.d, json_values.d)
                    ELSE body0.d,
         files  |-> files0.d]

\* the map a keyed Source Kind looks the parameter's name up in
SourceMap(source, maps) ==
    CASE source = "path" -> maps.kwargs
      [] source \in {"query", "query_list"} -> maps.query
      [] source \in {"body", "body_direct"} -> maps.body
      [] source = "file" -> maps.files

RECURSIVE ResolveOverride(_, _, _, _)
\* a merge in which a later source overrides an earlier one
ResolveOverride(sources, i, name, maps) ==
    IF i > Len(sources) THEN NoneV
    ELSE LET later == ResolveOverride(sources, i + 1, name, maps)
         IN  IF later # NoneV THEN later
             ELSE IF sources[i] \in {"body_direct", "query_and_body_direct"}
             THEN DictV(maps.body)
             ELSE DictGet(SourceMap(sources[i], maps), name)

RECURSIVE Resolve(_, _, _, _)
\* the inner loop of lines 358-391 for one parameter, from source i on
Resolve(sources, i, name, maps) ==
    IF i > Len(sources) THEN NoneV
    ELSE LET source == sources[i]
             next == Resolve(sources, i + 1, name, maps)
         IN  CASE source = "path" ->
                    IF name \in DOMAIN maps.kwargs THEN maps.kwargs[name] ELSE next
               [] source = "query" ->
                    IF name \in DOMAIN maps.query THEN maps.query[name] ELSE next
               [] source = "query_list" ->
                    IF name \in DOMAIN maps.query
                    THEN IF maps.query[name].k = "list" THEN maps.query[name]
                         ELSE ListV(<<maps.query[name]>>)
                    ELSE next
               [] source = "body" ->
                    IF name \in DOMAIN maps.body THEN maps.body[name] ELSE next
               [] source = "file" ->
                    IF name \in DOMAIN maps.files THEN maps.files[name] ELSE next
               [] source = "body_direct" -> DictV(maps.body)
               [] source = "query_and_body_direct" ->
                    DictV(DictUpdate(maps.query, maps.body))

\* a merge that leaves a parameter absent when its value is an empty map
MergeNoEmptyBody(v, maps) ==
    [name \in {v.names[i] : i \in 1..Len(v.names)} |->
        LET value == Resolve(v.sources[name], 1, name, maps)
        IN  IF value = DictV(EmptyDict) THEN NoneV ELSE value]

\* values, lines 356-391
Merge(v, maps) ==
    [name \in {v.names[i] : i \in 1..Len(v.names)} |->
        Resolve(v.sources[name], 1, name, maps)]

\* view_kwargs that keep the fields whose value is None
ViewKwargsUntrimmed(v, values, instance, maps) ==
    [name \in DOMAIN instance \cup v.input_files |->
        IF name \in v.input_files THEN DictGet(maps.files, name)
        ELSE instance[name]]

\* view_kwargs that hold a file parameter only when its file was uploaded
ViewKwargsFilesPresent(v, values, instance, maps) ==
    LET kept == {name \in DOMAIN instance :
                    name \in DOMAIN values /\ values[name] # NoneV}
    IN  [name \in kept \cup (v.input_files \cap DOMAIN maps.files) |->
            IF name \in v.input_files THEN maps.files[name]
            ELSE instance[name]]

\* view_kwargs, lines 411-419
ViewKwargs(v, values, instance, maps) ==
    LET kept == {name \in DOMAIN instance :
                    name \in DOMAIN values /\ values[name] # NoneV}
    IN  [name \in kept \cup v.input_files |->
            IF name \in v.input_files THEN DictGet(maps.files, name)
            ELSE instance[name]]

----------------------------------------------------------------------------
(* Responses (hatchway/http.py) and the handler *)

NoResponse == [status |-> 0, data |-> [none |-> TRUE], allow |-> "None",
               finalized |-> FALSE]

\* ApiResponse(data, status=status, finalize=True)
ApiResponse(data, status) ==
    [status |-> status, data |-> data, allow |-> "None", finalized |-> TRUE]

\* a 405 that does not say which method is allowed
HttpResponseNotAllowedBare(method) ==
    [status |-> 405, data |-> [none |-> TRUE], allow |-> "None",
     finalized |-> TRUE]

\* HttpResponseNotAllowed([method]): no body, the Allow header
HttpResponseNotAllowed(method) ==
    [status |-> 405, data |-> [none |-> TRUE], allow |-> method,
     finalized |-> TRUE]

\* str.upper on the method names a view is registered with
Upper(method) ==
    CASE method = "get" -> "GET"
      [] method = "post" -> "POST"
      [] method = "put" -> "PUT"
      [] method = "patch" -> "PATCH"
      [] method = "delete" -> "DELETE"
      [] OTHER -> method

\* what the wrapped function does once its body runs: it returns a value,
\* raises ApiError(404, "not_found"), or raises another exception
\* Each is a record: kind, data (the value returned), status and error (of
\* the ApiError), missing (a TypeError raised in the body whose message holds
\* "required positional argument")
NoOutcome ==
    [kind |-> "None", data |-> NoneV, status |-> 0, error |-> "", missing |-> FALSE]
Returns(data) == [NoOutcome EXCEPT !.kind = "return", !.data = data]
RaisesApiError(status, error) ==
    [NoOutcome EXCEPT !.kind = "ApiError", !.status = status, !.error = error]
RaisesTypeError(missing) ==
    [NoOutcome EXCEPT !.kind = "TypeError", !.missing = missing]
RaisesException == [NoOutcome EXCEPT !.kind = "Exception"]

HandlerData == DictV([key \in {<<"o", "k">>} |-> IntV(1)])
HandlerApiError == [status |-> 404, error |-> "not_found"]
HandlerOutcomes ==
    {Returns(HandlerData),
     RaisesApiError(HandlerApiError.status, HandlerApiError.error),
     RaisesException}

\* the value a parameter takes from the function's own default
DefaultV == [k |-> "default", v |-> 0]

\* a binding that lets a call without a required argument through
MissingNothing(v, view_kwargs) == {}

\* Python's binding of self.view(request, **view_kwargs): the parameters
\* that are neither passed nor defaulted raise the TypeError "missing ...
\* required positional argument"
MissingArguments(v, view_kwargs) ==
    {v.params[i] : i \in 1..Len(v.params)} \ (DOMAIN view_kwargs \cup v.defaults)

BoundArguments(v, view_kwargs) ==
    [name \in {v.params[i] : i \in 1..Len(v.params)} |->
        IF name \in DOMAIN view_kwargs THEN view_kwargs[name] ELSE DefaultV]

----------------------------------------------------------------------------
(* hatchway/schema.py and the output conversion of lines 436-449 *)

\* A declared return type: origin is "list", "set" or "tuple" for a
\* collection and "none" for a bare type; elem is "Schema", "int", or "None"
\* when the view declares no return type; frozen tells whether the Schema
\* subclass is declared frozen, which is what makes its instances hashable.
NoOutput == [origin |-> "none", elem |-> "None", frozen |-> FALSE]
OutputType(origin, elem, frozen) ==
    [origin |-> origin, elem |-> elem, frozen |-> frozen]

\* bool(value)
IsTruthy(value) ==
    CASE value.k = "none" -> FALSE
      [] value.k = "int" -> value.v # 0
      [] value.k \in {"str", "list", "tuple"} -> Len(value.v) > 0
      [] value.k = "set" -> value.v # {}
      [] value.k = "dict" -> DOMAIN value.v # {}
      [] OTHER -> TRUE

\* iter(data) is defined
Iterable(value) == value.k \in {"str", "list", "tuple", "set", "dict"}

\* next(iter(data), None)
FirstItem(value) ==
    CASE value.k \in {"list", "tuple"} /\ Len(value.v) > 0 -> value.v[1]
      [] value.k = "set" /\ value.v # {} -> CHOOSE x \in value.v : TRUE
      [] value.k = "str" /\ Len(value.v) > 0 -> StrV(<<value.v[1]>>)
      [] value.k = "dict" /\ DOMAIN value.v # {} ->
            StrV(CHOOSE key \in DOMAIN value.v : TRUE)
      [] OTHER -> NoneV

\* Schema.from_orm, lines 14-38: the declared fields the object has, then
\* msgspec.convert(data, type=cls) in strict mode. ok FALSE is
\* msgspec.ValidationError.
from_orm(obj) ==
    LET data == [f \in SchemaFields \cap DOMAIN obj.v |-> obj.v[f]]
    IN  IF \A f \in SchemaFields : f \in DOMAIN data /\ data[f].k = "int"
        THEN [ok |-> TRUE, val |-> StructV(data)]
        ELSE [ok |-> FALSE, val |-> NoneV]

\* the sequences that list the elements of a set once each
Enumerations(S) ==
    {q \in [1..Cardinality(S) -> S] : \A i, j \in 1..Cardinality(S) :
        q[i] = q[j] => i = j}

\* the orders in which iterating a value may yield its elements: any for a
\* set, its own for a list or a tuple
Orders(value) ==
    IF value.k = "set" THEN Enumerations(value.v)
    ELSE IF value.k \in {"list", "tuple"} THEN {value.v}
    ELSE {<<>>}

\* convert_from_orm, lines 45-68: [raised, val, items]; raised names the
\* exception that leaves it ("None" when it returns), items lists the
\* elements of a collection val in the order of its iteration. order is the
\* order in which data is iterated. set(converted) raises TypeError when the
\* Schema's instances are not hashable.
convert_from_orm(data, target_type, order) ==
    LET done(val, items) == [raised |-> "None", val |-> val, items |-> items]
        fail(exc) == [raised |-> exc, val |-> NoneV, items |-> <<>>]
        converted == [i \in 1..Len(order) |-> from_orm(order[i]).val]
    IN  IF target_type = NoOutput THEN done(data, order)
        ELSE IF target_type.origin \in {"list", "set", "tuple"} /\ IsTruthy(data)
        THEN IF ~Iterable(data) THEN fail("TypeError")
             ELSE IF FirstItem(data).k = "model"
                     /\ is_model_subclass(target_type.elem)
             THEN IF \E i \in 1..Len(order) : ~from_orm(order[i]).ok
                  THEN fail("ValidationError")
                  ELSE IF target_type.origin = "set"
                  THEN IF target_type.frozen
                       THEN done(SetV({converted[i] : i \in 1..Len(order)}),
                                 converted)
                       ELSE fail("TypeError")
                  ELSE IF target_type.origin = "tuple"
                  THEN done(TupleV(converted), converted)
                  ELSE done(ListV(converted), converted)
             ELSE done(data, order)
        ELSE IF data.k = "model" /\ is_model_subclass(target_type.elem)
        THEN IF from_orm(data).ok THEN done(from_orm(data).val, <<>>)
             ELSE fail("ValidationError")
        ELSE done(data, order)

\* one value against the declared element type with msgspec.to_builtins
\* left out: an instance of the Schema stays an instance
OutputElemKept(value, elem) ==
    IF elem = "int" THEN CoerceInt(value)
    ELSE IF value.k = "struct" THEN [ok |-> TRUE, val |-> value]
    ELSE IF value.k = "dict" THEN Coerce(value, "Schema")
    ELSE [ok |-> FALSE, val |-> value]

\* one value against the declared element type, then msgspec.to_builtins: an
\* instance of the Schema gives the mapping of its fields, a mapping is
\* coerced to the Schema in lax mode
OutputElem(value, elem) ==
    IF elem = "int" THEN CoerceInt(value)
    ELSE IF value.k = "struct" THEN [ok |-> TRUE, val |-> DictV(value.v)]
    ELSE IF value.k = "dict" THEN Coerce(value, "Schema")
    ELSE [ok |-> FALSE, val |-> value]

\* msgspec.convert({"value": data}, type=self.output_model, strict=False)
\* followed by msgspec.to_builtins(validated)["value"], lines 442-445; order
\* lists the elements of a collection value. ok FALSE is
\* msgspec.ValidationError.
output_convert(value, target_type, order) ==
    IF target_type.origin = "none" THEN OutputElem(value, target_type.elem)
    ELSE IF value.k \in {"list", "tuple", "set"}
    THEN IF \A i \in 1..Len(order) : OutputElem(order[i], target_type.elem).ok
         THEN [ok |-> TRUE,
               val |-> ListV([i \in 1..Len(order) |->
                                 OutputElem(order[i], target_type.elem).val])]
         ELSE [ok |-> FALSE, val |-> value]
    ELSE [ok |-> FALSE, val |-> value]

RECURSIVE Encodable(_)
\* msgspec.json.encode(self.data) of ApiResponse.finalize knows the value:
\* it raises TypeError on a persistence-layer object or a file
Encodable(value) ==
    CASE value.k \in {"model", "file"} -> FALSE
      [] value.k \in {"list", "tuple"} ->
            \A i \in 1..Len(value.v) : Encodable(value.v[i])
      [] value.k = "set" -> \A x \in value.v : Encodable(x)
      [] value.k \in {"dict", "struct"} ->
            \A key \in DOMAIN value.v : Encodable(value.v[key])
      [] OTHER -> TRUE

----------------------------------------------------------------------------
(* The ApiView object *)

AuthFalse == [k |-> "bool", b |-> FALSE, l |-> <<>>]
AuthTrue == [k |-> "bool", b |-> TRUE, l |-> <<>>]
AuthList(l) == [k |-> "list", b |-> FALSE, l |-> l]
\* bool(self.auth)
Truthy(auth) == IF auth.k = "bool" THEN auth.b ELSE auth.l # <<>>

NotRegistered ==
    [registered |-> FALSE, config_error |-> FALSE, method |-> "None",
     auth |-> AuthFalse, permissions |-> <<>>, input_types |-> <<>>,
     params |-> <<>>, defaults |-> {}, names |-> <<>>, sources |-> EmptyDict,
     input_files |-> {}, input_model |-> <<>>, output_type |-> NoOutput,
     validate_output |-> TRUE]

\* the parameters of the wrapped function after request, in order
RECURSIVE ParamsOf(_)
ParamsOf(input_types) ==
    IF input_types = <<>> THEN <<>>
    ELSE (IF Head(input_types).annotation.ty = "HttpRequest" THEN <<>>
          ELSE <<Head(input_types).name>>) \o ParamsOf(Tail(input_types))

\* ApiView.__init__: cfg is [method, auth, permissions, input_types,
\* defaults (the parameters the function gives a default)] and, when they are
\* not left to their defaults None and True, output_type and validate_output
NewApiView(cfg) ==
    LET c == compile(cfg.input_types)
    IN  IF c.raised THEN [NotRegistered EXCEPT !.config_error = TRUE]
        ELSE [registered |-> TRUE, config_error |-> FALSE,
              method |-> cfg.method, auth |-> cfg.auth,
              permissions |-> cfg.permissions,
              input_types |-> cfg.input_types,
              params |-> ParamsOf(cfg.input_types),
              defaults |-> cfg.defaults,
              names |-> c.names, sources |-> c.sources,
              input_files |-> c.input_files, input_model |-> c.input_model,
              output_type |-> IF "output_type" \in DOMAIN cfg
                              THEN cfg.output_type ELSE NoOutput,
              validate_output |-> IF "validate_output" \in DOMAIN cfg
                                  THEN cfg.validate_output ELSE TRUE]

----------------------------------------------------------------------------
(* ApiView.__call__ as steps over the locals of one call *)

Slots == {1, 2}

NoRequest ==
    [method |-> "None", content_type |-> "", kwargs |-> EmptyDict,
     GET |-> <<>>, form |-> <<>>, files |-> <<>>, json |-> [k |-> "blank"],
     authorization |-> <<>>, user |-> "noattr"]

NoAuth == [user |-> NoUser, backend_name |-> "None", consulted |-> <<>>]

IdleCall ==
    [pc |-> "Idle", request |-> NoRequest, auth |-> NoAuth,
     values |-> EmptyDict, view_kwargs |-> EmptyDict, invoked |-> 0,
     args |-> EmptyDict, outcome |-> NoOutcome, response |-> NoResponse,
     raised |-> "None"]

\* the checks of lines 307-333 with the method check moved behind the
\* other two
CheckAccessMethodLast(v, request, tokens, perms, t) ==
    LET backend_paths == IF v.auth.k = "list" THEN v.auth.l ELSE <<>>
        a == authenticate_request(request, get_backends(backend_paths),
                                  tokens, t)
        guarded == Truthy(v.auth) \/ v.permissions # <<>>
        req == IF guarded /\ a.user # NoUser
               THEN [request EXCEPT !.user = a.user] ELSE request
        ra == require_authentication(a.user)
        cp == check_permissions(perms, a.user, v.permissions)
        out(resp) == [response |-> resp, request |-> req,
                      auth |-> IF guarded THEN a ELSE NoAuth]
    IN  IF Truthy(v.auth) /\ ~ra[1]
        THEN out(ApiResponse([error |-> ra[2]], 401))
        ELSE IF v.permissions # <<>> /\ ~cp[1]
        THEN out(ApiResponse([error |-> cp[2]],
                             IF cp[2] = "authentication_required"
                             THEN 401 ELSE 403))
        ELSE IF v.method # "None" /\ Upper(v.method) # request.method
        THEN out(HttpResponseNotAllowed(v.method))
        ELSE out(NoResponse)

\* lines 307-333: the method check, authentication and the permission check.
\* [response (NoResponse when the request passes), request, auth]
CheckAccess(v, request, tokens, perms, t) ==
    LET pass(req, a) == [response |-> NoResponse, request |-> req, auth |-> a]
        deny(resp, req, a) == [response |-> resp, request |-> req, auth |-> a]
    IN  IF v.method # "None" /\ Upper(v.method) # request.method
        THEN deny(HttpResponseNotAllowed(v.method), request, NoAuth)
        ELSE IF Truthy(v.auth) \/ v.permissions # <<>>
        THEN LET backend_paths == IF v.auth.k = "list" THEN v.auth.l ELSE <<>>
                 backends == get_backends(backend_paths)
                 a == authenticate_request(request, backends, tokens, t)
                 req == IF a.user # NoUser
                        THEN [request EXCEPT !.user = a.user] ELSE request
                 ra == require_authentication(a.user)
                 cp == check_permissions(perms, a.user, v.permissions)
             IN  IF Truthy(v.auth) /\ ~ra[1]
                 THEN deny(ApiResponse([error |-> ra[2]], 401), req, a)
                 ELSE IF v.permissions # <<>> /\ ~cp[1]
                 THEN deny(ApiResponse([error |-> cp[2]],
                                       IF cp[2] = "authentication_required"
                                       THEN 401 ELSE 403), req, a)
                 ELSE pass(req, a)
        ELSE pass(request, NoAuth)

\* the body of the 400 response of lines 397-410
ValidationErrorData ==
    [error |-> "invalid_input",
     error_details |-> <<[loc |-> <<"<unknown>">>, msg |-> "error_msg",
                          type |-> "value_error"]>>]

\* A direct call of a class method is a record: fn names the method, arg is
\* its argument, done tells whether it has returned, result is what it
\* returned
NoDirect == [fn |-> "None", arg |-> NoneV, done |-> FALSE, result |-> NoneV]

----------------------------------------------------------------------------
(* Actions *)

Init ==
    /\ view = NotRegistered
    /\ db = [tokens |-> {}, perms |-> [u \in Users |-> {}]]
    /\ now = 0
    /\ calls = [s \in Slots |-> IdleCall]
    /\ direct = NoDirect

\* the decorator runs ApiView.__init__ once; a ValueError from compile
\* leaves no view
Register(cfg) ==
    /\ ~view.registered /\ ~view.config_error
    /\ view' = NewApiView(cfg)
    /\ UNCHANGED <<db, now, calls, direct>>

\* a view that keeps the request on itself: every call under way sees the
\* request that came last
ReceiveShared(s, request) ==
    /\ view.registered
    /\ calls[s].pc = "Idle"
    /\ calls' = [t \in Slots |->
                    IF t = s
                    THEN [IdleCall EXCEPT !.pc = "Received", !.request = request]
                    ELSE IF calls[t].pc = "Idle" THEN calls[t]
                    ELSE [calls[t] EXCEPT !.request = request]]
    /\ UNCHANGED <<view, db, now, direct>>

\* Django hands a request to the view
Receive(s, request) ==
    /\ view.registered
    /\ calls[s].pc = "Idle"
    /\ calls' = [calls EXCEPT ![s] =
                    [IdleCall EXCEPT !.pc = "Received", !.request = request]]
    /\ UNCHANGED <<view, db, now, direct>>

\* __call__ returns its response, or the exception leaves it; its locals go
Return(s) ==
    /\ calls[s].pc \in {"Finalized", "Raised"}
    /\ calls' = [calls EXCEPT ![s] = IdleCall]
    /\ UNCHANGED <<view, db, now, direct>>

\* lines 307-333
Authenticate(s) ==
    /\ calls[s].pc = "Received"
    /\ LET r == CheckAccess(view, calls[s].request, db.tokens, db.perms, now)
       IN  calls' = [calls EXCEPT ![s] =
              [@ EXCEPT !.pc = IF r.response = NoResponse THEN "Extracting"
                               ELSE "Finalized",
                        !.request = r.request,
                        !.auth = r.auth,
                        !.response = r.response]]
    /\ UNCHANGED <<view, db, now, direct>>

\* lines 335-419 on the locals of one call, with a ValidationError that is
\* not caught by the except clause of line 396
BindUnchecked(v, c) ==
    LET maps == ExtractMaps(c.request)
        values == Merge(v, maps)
    IN  IF v.names = <<>> /\ v.input_files = {}
        THEN [c EXCEPT !.pc = "Dispatching"]
        ELSE IF maps.raised
        THEN [c EXCEPT !.pc = "Raised", !.raised = "Extraction"]
        ELSE [c EXCEPT !.pc = "Dispatching", !.values = values,
                       !.view_kwargs = ViewKwargs(v, values, values, maps)]

\* lines 335-419 on the locals of one call
BindCall(v, c) ==
    LET maps == ExtractMaps(c.request)
        values == Merge(v, maps)
        conv == msgspec_convert(values, v.input_model)
    IN  IF v.names = <<>> /\ v.input_files = {}
        THEN [c EXCEPT !.pc = "Dispatching"]
        ELSE IF maps.raised
        THEN [c EXCEPT !.pc = "Raised", !.raised = "Extraction"]
        ELSE IF ~conv.ok
        THEN [c EXCEPT !.pc = "Finalized", !.values = values,
                       !.response = ApiResponse(ValidationErrorData, 400)]
        ELSE [c EXCEPT !.pc = "Dispatching", !.values = values,
                       !.view_kwargs =
                           ViewKwargs(v, values, conv.instance, maps)]

\* lines 335-419
Bind(s) ==
    /\ calls[s].pc = "Extracting"
    /\ calls' = [calls EXCEPT ![s] = BindCall(view, calls[s])]
    /\ UNCHANGED <<view, db, now, direct>>

\* lines 421-438 on the locals of one call: the call of self.view and its
\* except clauses. A TypeError is answered with the 400 when its message
\* holds "required positional argument", whether Python raised it on binding
\* the arguments or the handler's body raised it.
DispatchCall(v, c, outcome) ==
    IF MissingArguments(v, c.view_kwargs) # {}
    THEN [c EXCEPT !.pc = "Finalized",
                   !.response = ApiResponse([error |-> "invalid_input"], 400)]
    ELSE LET ran == [c EXCEPT !.invoked = @ + 1,
                              !.args = BoundArguments(v, c.view_kwargs),
                              !.outcome = outcome]
         IN  CASE outcome.kind = "return" ->
                    [ran EXCEPT !.pc = "ConvertingOutput",
                                !.response = [status |-> 200,
                                              data |-> outcome.data,
                                              allow |-> "None",
                                              finalized |-> FALSE]]
               [] outcome.kind = "ApiError" ->
                    [ran EXCEPT !.pc = "Finalized",
                                !.response = ApiResponse([error |-> outcome.error],
                                                         outcome.status)]
               [] outcome.kind = "TypeError" /\ outcome.missing ->
                    [ran EXCEPT !.pc = "Finalized",
                                !.response =
                                    ApiResponse([error |-> "invalid_input"], 400)]
               [] outcome.kind = "TypeError" /\ ~outcome.missing ->
                    [ran EXCEPT !.pc = "Raised", !.raised = "TypeError"]
               [] OTHER ->
                    [ran EXCEPT !.pc = "Raised", !.raised = "Handler"]

\* lines 421-438
Dispatch(s, outcome) ==
    /\ calls[s].pc = "Dispatching"
    /\ calls' = [calls EXCEPT ![s] = DispatchCall(view, calls[s], outcome)]
    /\ UNCHANGED <<view, db, now, direct>>

\* lines 447-449 alone: the returned value is written as it is
ConvertUnvalidated(v, c, order) ==
    [c EXCEPT !.pc = "Finalized", !.response.finalized = TRUE]

\* lines 440-449 on the locals of one call; order is the order in which
\* the returned value is iterated
ConvertCall(v, c, order) ==
    LET data == c.response.data
        finalize(val) ==
            IF Encodable(val)
            THEN [c EXCEPT !.pc = "Finalized", !.response.data = val,
                           !.response.finalized = TRUE]
            ELSE [c EXCEPT !.pc = "Raised", !.raised = "TypeError"]
    IN  IF v.output_type # NoOutput /\ v.validate_output
        THEN LET converted == convert_from_orm(data, v.output_type, order)
                 validated == output_convert(converted.val, v.output_type,
                                             converted.items)
             IN  IF converted.raised # "None"
                 THEN [c EXCEPT !.pc = "Raised", !.raised = converted.raised]
                 ELSE IF ~validated.ok
                 THEN [c EXCEPT !.pc = "Raised", !.raised = "ValidationError"]
                 ELSE finalize(validated.val)
        ELSE IF data.k = "struct" THEN finalize(DictV(data.v))
        ELSE finalize(data)

\* lines 440-449
ConvertOutput(s) ==
    /\ calls[s].pc = "ConvertingOutput"
    /\ \E order \in Orders(calls[s].response.data) :
          calls' = [calls EXCEPT ![s] = ConvertCall(view, calls[s], order)]
    /\ UNCHANGED <<view, db, now, direct>>

\* AuthToken.create_token(user, days_valid): the key is fresh
CreateToken(user, key, days_valid) ==
    /\ \A tok \in db.tokens : tok.key # key
    /\ db' = [db EXCEPT !.tokens = @ \cup
                 {[key |-> key, user |-> user, expires_at |-> now + days_valid]}]
    /\ UNCHANGED <<view, now, calls, direct>>

\* user.user_permissions.add(permission)
GrantPermission(user, permission) ==
    /\ permission \notin db.perms[user]
    /\ db' = [db EXCEPT !.perms[user] = @ \cup {permission}]
    /\ UNCHANGED <<view, now, calls, direct>>

\* timezone.now() moves on
Tick ==
    /\ now < MaxTime
    /\ now' = now + 1
    /\ UNCHANGED <<view, db, calls, direct>>

----------------------------------------------------------------------------
(* Spec: views that bind parameters, without authentication *)

NameA == <<"a">>
NameB == <<"b">>
Str1(c) == StrV(<<c>>)

\* the first parameter takes every signifier on every type
FirstAnnotations ==
    {[sig |-> sg, ty |-> ty] :
        sg \in Signifiers, ty \in {"int", "list", "Schema", "File"}}
\* a second parameter, when there is one
SecondAnnotations ==
    {[sig |-> "none", ty |-> "int"], [sig |-> "Body", ty |-> "int"],
     [sig |-> "none", ty |-> "Schema"], [sig |-> "none", ty |-> "File"]}

BindInputTypes ==
    {<<>>}
    \cup {<<[name |-> NameA, annotation |-> a]>> : a \in FirstAnnotations}
    \cup {<<[name |-> NameA, annotation |-> a], [name |-> NameB, annotation |-> b]>> :
            a \in FirstAnnotations, b \in SecondAnnotations}

BindConfigs ==
    {[method |-> "None", auth |-> AuthFalse, permissions |-> <<>>,
      input_types |-> it, defaults |-> ds] :
        it \in BindInputTypes, ds \in SUBSET {NameA}}

\* the values a repeated query key a is given: 2, 3, ...
Repeated(n) == [i \in 1..n |-> Str1(Digits[i + 2])]
QueryStrings ==
    {<<>>, <<[key |-> NameA, vals |-> <<Str1("x")>>]>>}
    \cup {<<[key |-> NameA, vals |-> Repeated(n)]>> : n \in 1..MaxRepeat}

Item(key, val) == [key |-> key, vals |-> <<val>>]
SchemaDict(n) == DictV([f \in SchemaFields |-> IntV(n)])

NoBody == [content_type |-> "", form |-> <<>>, files |-> <<>>,
           json |-> [k |-> "blank"]]
JsonBody(items) ==
    [content_type |-> "application/json", form |-> <<>>, files |-> <<>>,
     json |-> [k |-> "object", items |-> items]]
Bodies ==
    {NoBody,
     JsonBody(<<Item(<<"n">>, IntV(5))>>),
     JsonBody(<<Item(NameA, IntV(6))>>),
     JsonBody(<<Item(NameA, SchemaDict(7)), Item(NameB, SchemaDict(8))>>),
     [content_type |-> "application/x-www-form-urlencoded",
      form |-> <<Item(NameA, Str1("9"))>>, files |-> <<>>,
      json |-> [k |-> "blank"]],
     [content_type |-> "multipart/form-data",
      form |-> <<Item(NameB, Str1("9"))>>,
      files |-> <<Item(NameA, FileV("upload"))>>, json |-> [k |-> "blank"]]}

BindRequests ==
    {[method |-> m, content_type |-> b.content_type, kwargs |-> kw,
      GET |-> q, form |-> b.form, files |-> b.files, json |-> b.json,
      authorization |-> <<>>, user |-> "noattr"] :
        m \in {"POST", "PUT"},
        kw \in {EmptyDict, DictSet(EmptyDict, NameA, Str1("1"))},
        q \in QueryStrings, b \in Bodies}

Pipeline(s) ==
    \/ Authenticate(s)
    \/ Bind(s)
    \/ \E outcome \in HandlerOutcomes : Dispatch(s, outcome)
    \/ ConvertOutput(s)
    \/ Return(s)

Next ==
    \/ \E cfg \in BindConfigs : Register(cfg)
    \/ \E request \in BindRequests : Receive(1, request)
    \/ Pipeline(1)

Spec == Init /\ [][Next]_vars

----------------------------------------------------------------------------
(* SpecAuth: views without parameters, with authentication and permissions *)

Permissions == {"p1", "p2"}
TokenKey == <<"k">>
SessionUser == "u1"

AuthConfigs ==
    {[method |-> m, auth |-> a, permissions |-> ps, input_types |-> <<>>,
      defaults |-> {}] :
        m \in {"None", "get"},
        a \in {AuthFalse, AuthTrue, AuthList(<<"TokenAuthBackend">>),
               AuthList(<<"TokenAuthBackend", "SessionAuthBackend">>)},
        ps \in {<<>>, <<"p1">>, <<"p1", "p2">>}}

AuthorizationHeaders ==
    {<<>>,
     TokenPrefix \o TokenKey,
     TokenPrefix \o <<"z">>,
     <<"B", "e", "a", "r", "e", "r", " ">> \o TokenKey}

AuthRequests ==
    {[NoRequest EXCEPT !.method = m, !.authorization = h, !.user = u] :
        m \in {"GET", "POST"}, h \in AuthorizationHeaders,
        u \in {"noattr", "anon", SessionUser}}

NextAuth ==
    \/ \E cfg \in AuthConfigs : Register(cfg)
    \/ \E request \in AuthRequests : Receive(1, request)
    \/ Pipeline(1)
    \/ \E u \in Users : CreateToken(u, TokenKey, 1)
    \/ \E u \in Users, p \in Permissions : GrantPermission(u, p)
    \/ Tick

SpecAuth == Init /\ [][NextAuth]_vars

----------------------------------------------------------------------------
(* SpecOut: the whole of __call__, from the method check to finalize *)

\* an ORM object: the Schema's field n and an attribute the Schema does not
\* declare
Orm(n) == ModelV([f \in SchemaFields \cup {<<"s">>} |-> IntV(n)])
\* an ORM object whose n is not an int
BadOrm == ModelV([f \in SchemaFields |-> Str1("x")])
OrmSeq(n) == [i \in 1..n |-> Orm(i)]

\* the values the handler returns
ReturnValues ==
    {ListV(OrmSeq(n)) : n \in 0..MaxItems}
    \cup {TupleV(OrmSeq(n)) : n \in 0..MaxItems}
    \cup {SetV({Orm(i) : i \in 1..n}) : n \in 0..MaxItems}
    \cup {Orm(1), BadOrm, HandlerData, SchemaDict(7),
          StructV(SchemaDict(7).v), ListV(<<StructV(SchemaDict(7).v)>>),
          ListV(<<IntV(1), Str1("2")>>)}

OutOutcomes ==
    {Returns(data) : data \in ReturnValues}
    \cup {RaisesApiError(HandlerApiError.status, HandlerApiError.error),
          RaisesApiError(403, "forbidden"),
          RaisesTypeError(TRUE), RaisesTypeError(FALSE), RaisesException}

\* declared return types; a tuple is tuple[elem, ...]
OutputTypes ==
    {NoOutput,
     OutputType("none", "Schema", FALSE),
     OutputType("list", "Schema", FALSE),
     OutputType("tuple", "Schema", FALSE),
     OutputType("set", "Schema", FALSE),
     OutputType("set", "Schema", TRUE),
     OutputType("list", "int", FALSE)}

OutInputTypes ==
    {<<>>, <<[name |-> NameA, annotation |-> [sig |-> "Body", ty |-> "int"]]>>}

\* views that guard access and declare no return type, open views that
\* declare one, and a view that does both
OutConfigs ==
    {[method |-> m, auth |-> a, permissions |-> ps, input_types |-> it,
      defaults |-> {}] :
        m \in {"None", "post"}, a \in {AuthFalse, AuthTrue},
        ps \in {<<>>, <<"p1">>}, it \in OutInputTypes}
    \cup {[method |-> "None", auth |-> AuthFalse, permissions |-> <<>>,
           input_types |-> it, defaults |-> {}, output_type |-> ot,
           validate_output |-> vo] :
            it \in OutInputTypes, ot \in OutputTypes \ {NoOutput},
            vo \in BOOLEAN}
    \cup {[method |-> "post", auth |-> AuthTrue, permissions |-> <<"p1">>,
           input_types |-> it, defaults |-> {},
           output_type |-> OutputType("list", "Schema", FALSE),
           validate_output |-> TRUE] :
            it \in OutInputTypes \ {<<>>}}

OutBodies ==
    {NoBody,
     JsonBody(<<Item(NameA, IntV(6))>>),
     JsonBody(<<Item(NameA, Str1("x"))>>),
     JsonBody(<<Item(NameA \o <<"[", "t", "]">>, IntV(6))>>),
     [NoBody EXCEPT !.content_type = "application/json",
                    !.json = [k |-> "invalid"]],
     [NoBody EXCEPT !.content_type = "application/json",
                    !.json = [k |-> "other"]]}

OutRequests ==
    {[method |-> m, content_type |-> b.content_type, kwargs |-> EmptyDict,
      GET |-> <<>>, form |-> b.form, files |-> b.files, json |-> b.json,
      authorization |-> h, user |-> "noattr"] :
        m \in {"GET", "POST"}, b \in OutBodies,
        h \in {<<>>, TokenPrefix \o TokenKey}}

NextOut ==
    \/ \E cfg \in OutConfigs : Register(cfg)
    \/ \E request \in OutRequests : Receive(1, request)
    \/ Authenticate(1)
    \/ Bind(1)
    \/ \E outcome \in OutOutcomes : Dispatch(1, outcome)
    \/ ConvertOutput(1)
    \/ Return(1)
    \/ CreateToken(SessionUser, TokenKey, 1)
    \/ GrantPermission(SessionUser, "p1")

SpecOut == Init /\ [][NextOut]_vars

----------------------------------------------------------------------------
(* SpecCompile: compile run again on a registered view *)

\* a compile that promotes on top of the lists the view already holds
CompiledOnTop(v) ==
    LET c == compile(v.input_types)
    IN  [v EXCEPT !.sources =
            [name \in DOMAIN c.sources |->
                IF InSeq("body_direct", c.sources[name])
                   /\ InSeq("body_direct", v.sources[name])
                THEN Append(v.sources[name], "body_direct")
                ELSE c.sources[name]]]

\* self.compile(), lines 243-301, on a view that holds the results of an
\* earlier run: sources, input_files and the model's fields start empty
\* and are filled from self.input_types
Compiled(v) ==
    LET c == compile(v.input_types)
    IN  [v EXCEPT !.names = c.names, !.sources = c.sources,
                  !.input_files = c.input_files,
                  !.input_model = c.input_model]

\* view.compile() called on the registered view
Recompile ==
    /\ view.registered
    /\ view' = Compiled(view)
    /\ direct' = [NoDirect EXCEPT !.fn = "compile", !.done = TRUE]
    /\ UNCHANGED <<db, now, calls>>

\* the views compile is run on: those of Spec, and views that take the
\* request or an optional file as a parameter of its own
CompileInputTypes ==
    BindInputTypes
    \cup {<<[name |-> <<"r">>,
              annotation |-> [sig |-> "none", ty |-> "HttpRequest"]]>> \o it :
            it \in {<<>>} \cup
                   {<<[name |-> NameA, annotation |-> a]>> :
                       a \in {[sig |-> "none", ty |-> "int"],
                              [sig |-> "none", ty |-> "Schema"],
                              [sig |-> "none", ty |-> "OptFile"]}}}
CompileConfigs ==
    {[method |-> "None", auth |-> AuthFalse, permissions |-> <<>>,
      input_types |-> it, defaults |-> ds] :
        it \in CompileInputTypes, ds \in SUBSET {NameA}}

NextCompile ==
    \/ \E cfg \in CompileConfigs : Register(cfg)
    \/ Recompile

SpecCompile == Init /\ [][NextCompile]_vars

----------------------------------------------------------------------------
(* SpecDirect: the class methods get_values and sources_for_input, called *)
(* on their own                                                           *)

\* the keys name, name[] and name[sub]
PlainKey(name) == name
ListKey(name) == name \o <<"[", "]">>
SubKey(name, sub) == name \o <<"[">> \o sub \o <<"]">>

DirectKeys ==
    {PlainKey(NameA), ListKey(NameA), SubKey(NameA, <<"t">>),
     SubKey(NameA, <<"u">>), PlainKey(NameB)}

\* the values a key is given: x, y, ... in the order of the request
DirectVals(n) == [i \in 1..n |-> Str1(<<"x", "y", "z">>[i])]

\* the items of a multi-map: up to MaxKeys keys, no key twice
DirectItems ==
    UNION {{q \in [1..n -> [key : DirectKeys,
                             vals : {DirectVals(m) : m \in 1..MaxRepeat}]] :
              \A i, j \in 1..n : q[i].key = q[j].key => i = j} :
           n \in 0..MaxKeys}

\* the form body filters[title]=X&filters[author_id]=1
FiltersName == <<"f", "i", "l", "t", "e", "r", "s">>
TitleName == <<"t", "i", "t", "l", "e">>
AuthorIdName == <<"a", "u", "t", "h", "o", "r", "_", "i", "d">>
FiltersForm ==
    [qd |-> TRUE,
     items |-> <<Item(SubKey(FiltersName, TitleName), Str1("X")),
                 Item(SubKey(FiltersName, AuthorIdName), Str1("1"))>>]

\* the arguments of get_values: request.GET and request.POST are
\* QueryDicts, request.FILES is a MultiValueDict that is not
GetValuesInputs ==
    {[qd |-> qd, items |-> items] : qd \in BOOLEAN, items \in DirectItems}
    \cup {FiltersForm}

\* the arguments of sources_for_input
DirectAnnotations ==
    {[sig |-> sg, ty |-> ty] :
        sg \in Signifiers, ty \in InputTypes}

InitDirect ==
    /\ view = NotRegistered
    /\ db = [tokens |-> {}, perms |-> [u \in Users |-> {}]]
    /\ now = 0
    /\ calls = [s \in Slots |-> IdleCall]
    /\ direct \in
          {[NoDirect EXCEPT !.fn = "get_values", !.arg = data] :
              data \in GetValuesInputs}
          \cup {[NoDirect EXCEPT !.fn = "sources_for_input", !.arg = ann] :
                  ann \in DirectAnnotations}

\* ApiView.get_values(data)
CallGetValues ==
    /\ direct.fn = "get_values" /\ ~direct.done
    /\ direct' = [direct EXCEPT !.done = TRUE,
                                !.result = get_values(direct.arg)]
    /\ UNCHANGED <<view, db, now, calls>>

\* ApiView.sources_for_input(annotation)
CallSourcesForInput ==
    /\ direct.fn = "sources_for_input" /\ ~direct.done
    /\ direct' = [direct EXCEPT !.done = TRUE,
                                !.result = sources_for_input(direct.arg)]
    /\ UNCHANGED <<view, db, now, calls>>

NextDirect ==
    \/ CallGetValues
    \/ CallSourcesForInput

SpecDirect == InitDirect /\ [][NextDirect]_vars

----------------------------------------------------------------------------
(* SpecToken: TokenAuthBackend.authenticate called on its own while tokens *)
(* are created and time passes                                            *)

OtherKey == <<"y">>

\* TokenAuthBackend().authenticate(request), request carrying the header;
\* at is the time of the call
CallTokenAuthenticate(header) ==
    /\ direct' =
          [fn |-> "TokenAuthBackend.authenticate", arg |-> StrV(header),
           done |-> TRUE, at |-> now,
           result |-> [k |-> "user",
                       v |-> TokenAuthBackend_authenticate(
                                 [NoRequest EXCEPT !.authorization = header],
                                 db.tokens, now)]]
    /\ UNCHANGED <<view, db, now, calls>>

NextToken ==
    \/ \E u \in Users, key \in {TokenKey, OtherKey} : CreateToken(u, key, 1)
    \/ Tick
    \/ \E header \in AuthorizationHeaders \cup {TokenPrefix \o OtherKey} :
          CallTokenAuthenticate(header)

SpecToken == Init /\ [][NextToken]_vars

----------------------------------------------------------------------------
(* SpecDocs: the OpenAPI operation of a view (hatchway/openapi/generator.py) *)
(* generated while the view answers requests                              *)

\* _generate_responses: the status codes the operation documents
generate_responses(v) ==
    {IF Upper(IF v.method = "None" THEN "get" ELSE v.method) = "POST"
     THEN 201 ELSE 200}
    \cup {400}
    \cup (IF Truthy(v.auth) THEN {401} ELSE {})
    \cup (IF v.permissions # <<>> THEN {403} ELSE {})

\* _generate_security: either scheme will do
generate_security(v) == <<"TokenAuth", "SessionAuth">>

\* _generate_operation, lines 296-300, for the registered view
GenerateOperation ==
    /\ view.registered
    /\ direct.fn = "None"
    /\ direct' = [fn |-> "_generate_operation", arg |-> NoneV, done |-> TRUE,
                  result |-> [responses |-> generate_responses(view),
                              security |-> IF Truthy(view.auth)
                                           THEN generate_security(view)
                                           ELSE <<>>]]
    /\ UNCHANGED <<view, db, now, calls>>

NextDocs ==
    \/ \E cfg \in OutConfigs : Register(cfg)
    \/ \E request \in OutRequests : Receive(1, request)
    \/ Pipeline(1)
    \/ CreateToken(SessionUser, TokenKey, 1)
    \/ GrantPermission(SessionUser, "p1")
    \/ GenerateOperation

SpecDocs == Init /\ [][NextDocs]_vars

----------------------------------------------------------------------------
(* SpecConc: two calls of one view under way at once *)

ConcConfigs ==
    {[method |-> m, auth |-> AuthFalse, permissions |-> <<>>,
      input_types |-> it, defaults |-> {}] :
        m \in {"None", "post"}, it \in OutInputTypes}

ConcRequests ==
    {r \in OutRequests : r.authorization = <<>> /\ r.json.k # "other"}

\* __call__ from its first line to its last on one request, with nothing
\* else under way: the calls it may end as
CallAlone(v, request, outcome) ==
    LET r  == CheckAccess(v, request, db.tokens, db.perms, now)
        c1 == [IdleCall EXCEPT
                  !.pc = IF r.response = NoResponse THEN "Extracting"
                         ELSE "Finalized",
                  !.request = r.request, !.auth = r.auth,
                  !.response = r.response]
        c2 == IF c1.pc = "Extracting" THEN BindCall(v, c1) ELSE c1
        c3 == IF c2.pc = "Dispatching" THEN DispatchCall(v, c2, outcome) ELSE c2
    IN  IF c3.pc = "ConvertingOutput"
        THEN {ConvertCall(v, c3, order) : order \in Orders(c3.response.data)}
        ELSE {c3}

NextConc ==
    \/ \E cfg \in ConcConfigs : Register(cfg)
    \/ \E s \in Slots :
          \/ \E request \in ConcRequests : Receive(s, request)
          \/ Pipeline(s)

SpecConc == Init /\ [][NextConc]_vars

----------------------------------------------------------------------------
(* Claims about the merge of the extracted values *)

\* the calls whose merge loop has run: values holds every parameter
Bound(s) == calls[s].values # EmptyDict
MapsOf(s) == ExtractMaps(calls[s].request)

\* the least element of a non-empty set of numbers
Least(S) == CHOOSE i \in S : \A j \in S : i <= j

\* what a source hands over for the parameter once it is chosen
SourceValue(source, name, maps) ==
    IF source = "body_direct" THEN DictV(maps.body)
    ELSE IF source = "query_list" /\ maps.query[name].k # "list"
    THEN ListV(<<maps.query[name]>>)
    ELSE SourceMap(source, maps)[name]

\* the value of the first source among those at the positions hits
FirstOf(sources, hits, name, maps) ==
    IF hits = {} THEN NoneV
    ELSE SourceValue(sources[Least(hits)], name, maps)

\* the positions of the sources whose map contains the name
Containing(sources, name, maps) ==
    {i \in 1..Len(sources) : name \in DOMAIN SourceMap(sources[i], maps)}

\* the positions of the sources that yield: body_direct always does
Yielding(sources, name, maps) ==
    {i \in 1..Len(sources) :
        sources[i] = "body_direct" \/ name \in DOMAIN SourceMap(sources[i], maps)}

\* an unsignified scalar found in the path and in the query takes the path's
PathBeatsQuery(s) ==
    \A i \in 1..Len(view.input_types) :
        LET p == view.input_types[i]
        IN  (/\ p.annotation = [sig |-> "none", ty |-> "int"]
             /\ p.name \in DOMAIN MapsOf(s).kwargs
             /\ p.name \in DOMAIN MapsOf(s).query)
            => calls[s].values[p.name] = MapsOf(s).kwargs[p.name]

\* C1 as stated: every parameter is bound to the value of the first source
\* of its list whose map contains its name, and to None (absent) when no
\* source's map contains it.
C1_FirstContainingSourceWins ==
    \A s \in Slots : Bound(s) =>
        \A name \in DOMAIN calls[s].values :
            calls[s].values[name] =
                FirstOf(view.sources[name],
                        Containing(view.sources[name], name, MapsOf(s)),
                        name, MapsOf(s))

\* C1 amended: every parameter is bound to the value of the first source of
\* its list that yields, where path, query, query_list, body and file yield
\* when their map contains the name and body_direct always yields the whole
\* body map; later sources are not merged in; a parameter none of whose
\* sources yields is None (absent); an unsignified scalar present in the
\* path and in the query is bound to the path's value.
C1_FirstYieldingSourceWins ==
    \A s \in Slots : Bound(s) =>
        /\ \A name \in DOMAIN calls[s].values :
              calls[s].values[name] =
                  FirstOf(view.sources[name],
                          Yielding(view.sources[name], name, MapsOf(s)),
                          name, MapsOf(s))
        /\ PathBeatsQuery(s)

\* a parameter found in the path and, with another value, in the query
C1_Witness ==
    \E s \in Slots :
        /\ Bound(s)
        /\ view.sources[NameA] = <<"path", "query">>
        /\ NameA \in DOMAIN MapsOf(s).kwargs
        /\ NameA \in DOMAIN MapsOf(s).query
        /\ MapsOf(s).query[NameA] # MapsOf(s).kwargs[NameA]
        /\ calls[s].values[NameA] = Str1("1")

----------------------------------------------------------------------------
(* Claims about the single-body promotion *)

\* the candidate sources of the i-th parameter, before any promotion
Candidates(i) == sources_for_input(view.input_types[i].annotation).sources

\* the parameters that have body among their candidate sources
BodyParams ==
    {i \in 1..Len(view.input_types) : \E j \in 1..Len(Candidates(i)) :
        Candidates(i)[j] = "body"}

\* the candidate sources with body taken out and body_direct put at the end
Promoted(i) ==
    LET keep == {j \in 1..Len(Candidates(i)) : Candidates(i)[j] # "body"}
    IN  [j \in 1..(Cardinality(keep) + 1) |->
            IF j = Cardinality(keep) + 1 THEN "body_direct"
            ELSE Candidates(i)[CHOOSE k \in keep :
                    Cardinality({l \in keep : l < k}) = j - 1]]

\* compile promotes a parameter iff it alone reads the body and is a Schema
PromotionIff ==
    view.registered =>
        \A i \in 1..Len(view.input_types) :
            view.sources[view.input_types[i].name] =
                IF BodyParams = {i} /\ view.input_types[i].annotation.ty = "Schema"
                THEN Promoted(i) ELSE Candidates(i)

\* no source before the j-th of the parameter's list contains its name
NoEarlier(s, name, j) ==
    \A k \in 1..(j - 1) :
        name \notin DOMAIN SourceMap(view.sources[name][k], MapsOf(s))

\* with two or more body parameters each is looked up under its own name
BodyByName(s) ==
    Cardinality(BodyParams) >= 2 =>
        \A i \in BodyParams :
            LET name == view.input_types[i].name
                j == Len(view.sources[name])
            IN  /\ view.sources[name][j] = "body"
                /\ NoEarlier(s, name, j)
                      => calls[s].values[name] = DictGet(MapsOf(s).body, name)

\* C2 as stated: a parameter is promoted iff it is the only one with body
\* among its sources and its type is a Schema; a promoted parameter is bound
\* to the entire body map; with two or more body parameters none is promoted
\* and each is looked up under its own name in the body map.
C2_PromotedBoundToBody ==
    /\ PromotionIff
    /\ \A s \in Slots : Bound(s) =>
          /\ \A name \in DOMAIN calls[s].values :
                (\E j \in 1..Len(view.sources[name]) :
                    view.sources[name][j] = "body_direct")
                => calls[s].values[name] = DictV(MapsOf(s).body)
          /\ BodyByName(s)

\* C2 amended: the same, except that a promoted parameter is bound to the
\* entire body map when no source before body_direct in its list (query, for
\* a QueryOrBody parameter) contains its name, and to that source's value
\* when one does.
C2_PromotedBoundToBodyUnlessEarlier ==
    /\ PromotionIff
    /\ \A s \in Slots : Bound(s) =>
          /\ \A name \in DOMAIN calls[s].values :
                \A j \in 1..Len(view.sources[name]) :
                    view.sources[name][j] = "body_direct" =>
                        /\ NoEarlier(s, name, j)
                              => calls[s].values[name] = DictV(MapsOf(s).body)
                        /\ \A k \in 1..(j - 1) :
                              (/\ NoEarlier(s, name, k)
                               /\ name \in DOMAIN
                                      SourceMap(view.sources[name][k], MapsOf(s)))
                              => calls[s].values[name] =
                                     SourceMap(view.sources[name][k], MapsOf(s))[name]
          /\ BodyByName(s)

\* a promoted parameter bound to a body that does not hold its name
C2_Witness ==
    \E s \in Slots :
        /\ Bound(s)
        /\ view.sources[NameA] = <<"body_direct">>
        /\ DOMAIN MapsOf(s).body = {<<"n">>}
        /\ calls[s].values[NameA] = DictV(MapsOf(s).body)

----------------------------------------------------------------------------
(* Claims about validation and the handler's arguments *)

\* the values of the key in the query string, in order
QueryValues(request, name) ==
    LET at == {i \in 1..Len(request.GET) : request.GET[i].key = name}
    IN  IF at = {} THEN <<>> ELSE request.GET[Least(at)].vals

\* C3 as stated: a collection-typed query parameter, declared bare or wrapped
\* as Query[list[str]], is bound to the list of all the values of its key:
\* a one-element list for a single value, never a bare string.
C3_CollectionQueryBindsList ==
    \A s \in Slots : Bound(s) =>
        \A i \in 1..Len(view.input_types) :
            LET p == view.input_types[i]
            IN  (/\ p.annotation.ty \in CollectionTypes
                 /\ p.annotation.sig \in {"none", "Query"}
                 /\ QueryValues(calls[s].request, p.name) # <<>>)
                => calls[s].values[p.name] =
                       ListV(QueryValues(calls[s].request, p.name))

\* the bare declaration does bind the one-element list
C3_BareWitness ==
    \E s \in Slots :
        /\ Bound(s)
        /\ view.input_types[1].annotation = [sig |-> "none", ty |-> "list"]
        /\ Len(QueryValues(calls[s].request, NameA)) = 1
        /\ calls[s].values[NameA] = ListV(QueryValues(calls[s].request, NameA))

\* C4: when the merged values fail validation the response is 400, its error
\* is "invalid_input", its error_details is a non-empty list of entries with
\* the keys loc, msg and type, type being "value_error", and the handler is
\* not invoked.
C4_ValidationFailure ==
    \A s \in Slots :
        (Bound(s) /\ ~msgspec_convert(calls[s].values, view.input_model).ok) =>
            /\ calls[s].pc = "Finalized"
            /\ calls[s].response.status = 400
            /\ DOMAIN calls[s].response.data = {"error", "error_details"}
            /\ calls[s].response.data.error = "invalid_input"
            /\ Len(calls[s].response.data.error_details) >= 1
            /\ \A i \in 1..Len(calls[s].response.data.error_details) :
                  LET e == calls[s].response.data.error_details[i]
                  IN  DOMAIN e = {"loc", "msg", "type"} /\ e.type = "value_error"
            /\ calls[s].invoked = 0

\* a string that is no numeral for an int parameter
C4_Witness ==
    \E s \in Slots :
        /\ Bound(s)
        /\ view.input_model = <<[name |-> NameA, ty |-> "int"]>>
        /\ calls[s].values[NameA] = Str1("x")
        /\ calls[s].response.status = 400
        /\ calls[s].pc = "Finalized"

\* the parameter's name is in none of the maps its candidate sources read
AbsentEverywhere(s, name) ==
    /\ name \in DOMAIN view.sources
    /\ \A j \in 1..Len(view.sources[name]) :
          /\ view.sources[name][j] # "body_direct"
          /\ name \notin DOMAIN SourceMap(view.sources[name][j], MapsOf(s))

\* the handler's body has run in this call
Invoked(s) == calls[s].invoked = 1

\* C5 as stated: a parameter absent from all its candidate sources is not
\* passed to the handler, whose own default is then used; only the
\* parameters whose merged value is present are passed.
C5_AbsentNotPassed ==
    \A s \in Slots : (Bound(s) /\ Invoked(s)) =>
        /\ \A name \in DOMAIN view.sources :
              AbsentEverywhere(s, name) =>
                  /\ name \notin DOMAIN calls[s].view_kwargs
                  /\ calls[s].args[name] = DefaultV
        /\ \A name \in DOMAIN calls[s].view_kwargs :
              calls[s].values[name] # NoneV

\* C5 amended: a parameter that is not a file parameter and is absent from
\* all its candidate sources is not passed to the handler, whose own default
\* is then used; of the other parameters only those whose merged value is
\* present are passed; every file parameter is passed, as the uploaded file
\* or as None when there is none.
C5_AbsentNotPassedUnlessFile ==
    \A s \in Slots : (Bound(s) /\ Invoked(s)) =>
        /\ \A name \in DOMAIN view.sources \ view.input_files :
              AbsentEverywhere(s, name) =>
                  /\ name \notin DOMAIN calls[s].view_kwargs
                  /\ calls[s].args[name] = DefaultV
        /\ \A name \in DOMAIN calls[s].view_kwargs \ view.input_files :
              calls[s].values[name] # NoneV
        /\ \A name \in view.input_files :
              /\ name \in DOMAIN calls[s].view_kwargs
              /\ calls[s].args[name] = DictGet(MapsOf(s).files, name)

\* the handler runs on its default for a parameter found nowhere, and on
\* the query's value for the other
C5_Witness ==
    \E s \in Slots :
        /\ Bound(s) /\ Invoked(s)
        /\ Len(view.input_types) = 2
        /\ NameA \in view.defaults
        /\ AbsentEverywhere(s, NameA)
        /\ calls[s].args[NameA] = DefaultV
        /\ NameB \in DOMAIN calls[s].view_kwargs

\* the call got through validation and the handler call has been made
Called(s) ==
    /\ Bound(s)
    /\ msgspec_convert(calls[s].values, view.input_model).ok
    /\ calls[s].pc \in {"ConvertingOutput", "Finalized", "Raised"}

\* the 400 of lines 423-430 and no run of the handler's body
RejectedAsMissing(s) ==
    /\ calls[s].pc = "Finalized"
    /\ calls[s].response = ApiResponse([error |-> "invalid_input"], 400)
    /\ DOMAIN calls[s].response.data = {"error"}
    /\ calls[s].invoked = 0

----------------------------------------------------------------------------
(* Claims about authentication and permissions *)

\* the view asks for authentication or for permissions
Guarded == Truthy(view.auth) \/ view.permissions # <<>>

\* the backends the view is configured with: the classes of its auth list,
\* else the default order
Configured ==
    IF view.auth.k = "list" /\ view.auth.l # <<>> THEN view.auth.l
    ELSE <<"SessionAuthBackend", "TokenAuthBackend">>

\* the step of slot s in which a guarded view, having accepted the request's
\* method, authenticates it and checks its permissions
Authenticating(s) ==
    /\ Guarded
    /\ calls[s].pc = "Received"
    /\ calls'[s].pc # "Received"
    /\ calls'[s].response.status # 405

\* what the i-th configured backend returns for the request of slot s
Returned(s, i) ==
    backend_authenticate(Configured[i], calls[s].request, db.tokens, now)

\* the configured backends that return a user
Successes(s) == {i \in 1..Len(Configured) : Returned(s, i) # NoUser}

\* the user of the first configured backend that returns one
FirstUser(s) == Returned(s, Least(Successes(s)))

\* the user holds every permission of the view
HoldsAll(user) ==
    \A i \in 1..Len(view.permissions) : view.permissions[i] \in db.perms[user]

\* the response of the next state of slot s, and no run of the handler
Refused(s, status, error) ==
    /\ calls'[s].pc = "Finalized"
    /\ calls'[s].response = ApiResponse([error |-> error], status)
    /\ calls'[s].invoked = 0

\* the request goes on to the handler as the user
Admitted(s, user) ==
    /\ calls'[s].pc = "Extracting"
    /\ calls'[s].request.user = user

\* a view without inputs runs the handler of every request it admits, and a
\* guarded view runs it with request.user set to the authenticated user
HandlerSeesUser ==
    \A s \in Slots :
        /\ (Guarded /\ Invoked(s)) =>
              /\ calls[s].auth.user # NoUser
              /\ calls[s].request.user = calls[s].auth.user
        /\ calls[s].response.status \in {401, 403, 405} => ~Invoked(s)
        /\ (/\ view.params = <<>>
            /\ calls[s].pc \in {"ConvertingOutput", "Finalized", "Raised"}
            /\ calls[s].response.status \notin {401, 403, 405}) => Invoked(s)

\* C7 as stated: on a view with auth=True or with permissions, a request for
\* which no configured backend returns a user gets 401 with the body
\* {"error": "authentication_required"} and the handler is not invoked; a
\* request authenticated by a backend reaches the handler with request.user
\* set to the authenticated user.
C7_AuthenticatedReachesHandler ==
    /\ []HandlerSeesUser
    /\ [][\A s \in Slots : Authenticating(s) =>
            IF Successes(s) = {}
            THEN Refused(s, 401, "authentication_required")
            ELSE Admitted(s, FirstUser(s))]_vars

\* C7 amended: a request for which no configured backend returns a user gets
\* 401 with the body {"error": "authentication_required"} and the handler is
\* not invoked; a request authenticated by a backend has request.user set to
\* the authenticated user and reaches the handler when that user holds every
\* permission the view requires; when the user lacks one the response is 403.
C7_AuthenticatedReachesHandlerIfPermitted ==
    /\ []HandlerSeesUser
    /\ [][\A s \in Slots : Authenticating(s) =>
            IF Successes(s) = {}
            THEN Refused(s, 401, "authentication_required")
            ELSE /\ calls'[s].request.user = FirstUser(s)
                 /\ HoldsAll(FirstUser(s)) => Admitted(s, FirstUser(s))
                 /\ ~HoldsAll(FirstUser(s)) => calls'[s].response.status = 403]_vars

\* a token's user on a view with auth=True, seen by the handler
C7_Witness ==
    \E s \in Slots :
        /\ view.auth = AuthTrue
        /\ calls[s].request.authorization = TokenPrefix \o TokenKey
        /\ calls[s].auth.backend_name = "TokenAuthBackend"
        /\ calls[s].request.user = calls[s].auth.user
        /\ Invoked(s)

\* C8: on a view with permissions P an authenticated user reaches the
\* handler iff the user holds every permission of P; a user lacking one gets
\* 403 with the body {"error": "permission_denied"} and the handler is not
\* invoked. The permission check reads the permissions held when the request is made,
\* so the same request succeeds once the missing ones are granted.
C8_PermissionsIff ==
    /\ []HandlerSeesUser
    /\ [][\A s \in Slots :
            (Authenticating(s) /\ view.permissions # <<>> /\ Successes(s) # {}) =>
                /\ Admitted(s, FirstUser(s)) <=> HoldsAll(FirstUser(s))
                /\ ~HoldsAll(FirstUser(s)) =>
                       Refused(s, 403, "permission_denied")]_vars

\* a call refused with 403 whose user has since been granted every
\* permission of the view
C8_Witness ==
    \E s \in Slots :
        /\ Len(view.permissions) = 2
        /\ calls[s].pc = "Finalized"
        /\ calls[s].response = ApiResponse([error |-> "permission_denied"], 403)
        /\ calls[s].auth.user # NoUser
        /\ HoldsAll(calls[s].auth.user)

\* the permission check of a view with permissions is the one that refuses:
\* authentication was not required, or it succeeded
PermissionCheckFails(s) ==
    /\ Authenticating(s)
    /\ view.permissions # <<>>
    /\ IF Successes(s) = {} THEN ~Truthy(view.auth)
       ELSE ~HoldsAll(FirstUser(s))

\* C9 as stated: every response of a failed permission check has the body
\* {"error": "permission_denied"}; its status is 401 when there is no
\* authenticated user and 403 when the user lacks a permission.
C9_DeniedBody ==
    [][\A s \in Slots : PermissionCheckFails(s) =>
            Refused(s, IF Successes(s) = {} THEN 401 ELSE 403,
                    "permission_denied")]_vars

\* C9 amended: the response of a failed permission check is 401 with the body
\* {"error": "authentication_required"} when there is no authenticated user,
\* and 403 with the body {"error": "permission_denied"} when the
\* authenticated user lacks a permission.
C9_DeniedBodyByCause ==
    [][\A s \in Slots : PermissionCheckFails(s) =>
            IF Successes(s) = {}
            THEN Refused(s, 401, "authentication_required")
            ELSE Refused(s, 403, "permission_denied")]_vars

\* a view with permissions only, refusing a request that carries no user
C9_Witness ==
    \E s \in Slots :
        /\ view.auth = AuthFalse
        /\ view.permissions # <<>>
        /\ calls[s].auth.consulted # <<>>
        /\ calls[s].auth.user = NoUser
        /\ calls[s].response = ApiResponse([error |-> "authentication_required"], 401)

\* C10: authenticate_request asks the configured backends in their order and
\* returns the user and the class name of the first that returns a user,
\* asking none after it, and (None, None) when none does. In the default
\* order a request with a session user and a valid token is attributed to
\* SessionAuthBackend; with auth=[TokenAuthBackend] a request that has only a
\* session user is unauthenticated and gets 401.
C10_FirstBackendWins ==
    [][\A s \in Slots : Authenticating(s) =>
            /\ IF Successes(s) = {}
               THEN calls'[s].auth = [user |-> NoUser, backend_name |-> "None",
                                      consulted |-> Configured]
               ELSE calls'[s].auth =
                        [user |-> FirstUser(s),
                         backend_name |-> Configured[Least(Successes(s))],
                         consulted |-> SubSeq(Configured, 1, Least(Successes(s)))]
            /\ (/\ view.auth.k = "bool"
                /\ SessionAuthBackend_authenticate(calls[s].request) # NoUser
                /\ TokenAuthBackend_authenticate(calls[s].request, db.tokens, now)
                       # NoUser)
               => calls'[s].auth.backend_name = "SessionAuthBackend"
            /\ (/\ view.auth = AuthList(<<"TokenAuthBackend">>)
                /\ SessionAuthBackend_authenticate(calls[s].request) # NoUser
                /\ TokenAuthBackend_authenticate(calls[s].request, db.tokens, now)
                       = NoUser)
               => Refused(s, 401, "authentication_required")]_vars

\* the default order, a session user and another user's valid token: the
\* session backend answers and the token backend is not asked
C10_Witness ==
    \E s \in Slots :
        /\ view.auth = AuthTrue
        /\ calls[s].auth = [user |-> SessionUser,
                            backend_name |-> "SessionAuthBackend",
                            consulted |-> <<"SessionAuthBackend">>]
        /\ calls[s].request.authorization = TokenPrefix \o TokenKey
        /\ \E tok \in db.tokens :
              tok.key = TokenKey /\ tok.user # SessionUser /\ tok.expires_at > now

----------------------------------------------------------------------------
(* Claims about the handler's exceptions *)

\* the call in slot 1 has run the handler, which ended as kind says
Ended(kinds) == calls[1].invoked = 1 /\ calls[1].outcome.kind \in kinds

\* C11, as stated: once the handler has raised ApiError(status, error) the
\* call is finalized with exactly that status and the body {"error": error},
\* without passing through output conversion; and a handler that raised any
\* other exception is not answered with a response.
C11_OnlyApiErrorConverted ==
    /\ Ended({"ApiError"}) =>
          /\ calls[1].pc = "Finalized"
          /\ calls[1].response =
                ApiResponse([error |-> calls[1].outcome.error],
                            calls[1].outcome.status)
    /\ Ended({"TypeError", "Exception"}) => calls[1].pc = "Raised"

\* C11: the handler raised ApiError(404, "not_found") under a view that
\* declares a return type and validates it, and the call is finalized with
\* the 404
C11_Witness ==
    /\ Ended({"ApiError"})
    /\ view.output_type # NoOutput /\ view.validate_output
    /\ calls[1].pc = "Finalized"
    /\ calls[1].response = ApiResponse([error |-> "not_found"], 404)

\* C11: the handler's body raised a TypeError whose message holds "required
\* positional argument", and the call is finalized with a 400
C11_TypeErrorConverted ==
    /\ Ended({"TypeError"})
    /\ calls[1].outcome.missing
    /\ calls[1].pc = "Finalized"
    /\ calls[1].response = ApiResponse([error |-> "invalid_input"], 400)

\* C19, as stated: a call whose handler body raised anything but an
\* ApiError ends with that exception leaving __call__, and the 400
\* {"error": "invalid_input"} is the answer only of calls that never entered
\* the handler's body.
C19_BodyExceptionsPropagate ==
    /\ Ended({"TypeError", "Exception"}) =>
          /\ calls[1].pc = "Raised"
          /\ calls[1].raised \in {"TypeError", "Handler"}
    /\ calls[1].response = ApiResponse([error |-> "invalid_input"], 400) =>
          calls[1].invoked = 0

\* C19: a handler took its argument and its body raised an exception that
\* is neither an ApiError nor a TypeError, which left __call__
C19_Witness ==
    /\ Ended({"Exception"})
    /\ NameA \in DOMAIN calls[1].args
    /\ calls[1].pc = "Raised" /\ calls[1].raised = "Handler"

\* C19: a handler without parameters was called, its body raised a
\* TypeError whose message holds "required positional argument", and the
\* call is answered with the 400
C19_BodyTypeErrorAnswered ==
    /\ view.params = <<>>
    /\ Ended({"TypeError"}) /\ calls[1].outcome.missing
    /\ calls[1].pc = "Finalized"
    /\ calls[1].response = ApiResponse([error |-> "invalid_input"], 400)

----------------------------------------------------------------------------
(* Claims about the order of the steps of a call *)

\* the view is registered for a method and the request in slot 1 has another
MethodDiffers ==
    view.method # "None" /\ Upper(view.method) # calls[1].request.method

\* C12: once a call is past the method check, a request whose method is not
\* the one the view is registered for has the 405 with no body and the
\* registered method in its Allow header, and nothing else has run: no
\* backend was consulted, request.user is as it came, no value was extracted
\* and the handler was not invoked. A view registered with no method, or
\* for the request's method, never answers 405.
C12_MethodNotAllowed ==
    calls[1].pc \notin {"Idle", "Received"} =>
        /\ MethodDiffers =>
              /\ calls[1].pc = "Finalized"
              /\ calls[1].response =
                    [status |-> 405, data |-> [none |-> TRUE],
                     allow |-> view.method, finalized |-> TRUE]
              /\ calls[1].auth = NoAuth
              /\ calls[1].request.user = "noattr"
              /\ calls[1].values = EmptyDict
              /\ calls[1].invoked = 0
        /\ ~MethodDiffers => calls[1].response.status # 405

\* C12: a GET that carries a valid token and a JSON body reaches a view
\* registered for post that requires authentication and takes a parameter,
\* and is answered 405
C12_Witness ==
    /\ view.method = "post" /\ view.auth = AuthTrue /\ view.names # <<>>
    /\ calls[1].request.method = "GET"
    /\ calls[1].request.authorization = TokenPrefix \o TokenKey
    /\ calls[1].request.json.k = "object"
    /\ \E tok \in db.tokens : tok.key = TokenKey
    /\ calls[1].pc = "Finalized"
    /\ calls[1].response.status = 405

\* C13, as stated: an exception leaves __call__ only when the handler itself
\* raised one that is not an ApiError; every other call ends finalized.
C13_OnlyHandlerExceptionsEscape ==
    calls[1].pc = "Raised" => Ended({"TypeError", "Exception"})

\* C13: a value that fails input validation is answered with the 400 and the
\* handler is not invoked
C13_Witness ==
    /\ calls[1].request.json = JsonBody(<<Item(NameA, Str1("x"))>>).json
    /\ calls[1].pc = "Finalized"
    /\ calls[1].response = ApiResponse(ValidationErrorData, 400)
    /\ calls[1].invoked = 0

\* C13: json.loads raises on a body that is not valid JSON, before the
\* handler is invoked
C13_InvalidJsonEscapes ==
    /\ calls[1].request.json.k = "invalid"
    /\ calls[1].pc = "Raised" /\ calls[1].invoked = 0

\* C13: the handler returned a value that fails output validation, and
\* msgspec.ValidationError leaves __call__
C13_OutputValidationEscapes ==
    /\ Ended({"return"})
    /\ calls[1].outcome.data = HandlerData
    /\ view.output_type = OutputType("none", "Schema", FALSE)
    /\ calls[1].pc = "Raised" /\ calls[1].raised = "ValidationError"

\* the responses of the method check, of authentication, of the permission
\* check and of input validation
CheckResponses ==
    {[status |-> 405, data |-> [none |-> TRUE], allow |-> view.method,
      finalized |-> TRUE],
     ApiResponse([error |-> "authentication_required"], 401),
     ApiResponse([error |-> "permission_denied"], 403),
     ApiResponse(ValidationErrorData, 400)}

\* the request in slot 1 passes the four checks
ChecksPassed ==
    /\ ~MethodDiffers
    /\ Truthy(view.auth) => calls[1].auth.user # NoUser
    /\ view.permissions # <<>> =>
          calls[1].auth.user # NoUser /\ HoldsAll(calls[1].auth.user)
    /\ msgspec_convert(calls[1].values, view.input_model).ok

\* the data of the response is what output validation makes of the value
\* the handler returned
OutputValidated ==
    (view.output_type # NoOutput /\ view.validate_output) =>
        \E order \in Orders(calls[1].outcome.data) :
            LET cv == convert_from_orm(calls[1].outcome.data,
                                       view.output_type, order)
                ov == output_convert(cv.val, view.output_type, cv.items)
            IN  cv.raised = "None" /\ ov.ok /\ calls[1].response.data = ov.val

\* C14: in every state of a call the handler has run at most once, and it
\* has run only if the request passes the method check, authentication, the
\* permission check and input validation; a call answered by one of those
\* checks has not run it; output conversion is entered only with a value the
\* handler returned, and a returned value is finalized only as output
\* validation left it. In every step the handler runs only from Dispatching,
\* once, and a returned value is finalized only from ConvertingOutput.
C14_HandlerBetweenChecks ==
    /\ [](/\ calls[1].invoked <= 1
          /\ calls[1].invoked = 1 => ChecksPassed
          /\ calls[1].response \in CheckResponses => calls[1].invoked = 0
          /\ calls[1].pc = "ConvertingOutput" =>
                Ended({"return"}) /\ ~calls[1].response.finalized
          /\ (Ended({"return"}) /\ calls[1].pc = "Finalized") =>
                calls[1].response.finalized /\ OutputValidated)
    /\ [][/\ calls'[1].invoked > calls[1].invoked =>
                /\ calls[1].pc = "Dispatching"
                /\ calls'[1].invoked = calls[1].invoked + 1
          /\ (/\ calls'[1].outcome.kind = "return"
              /\ calls'[1].response.finalized
              /\ ~calls[1].response.finalized) =>
                calls[1].pc = "ConvertingOutput"]_vars

\* C14: a POST with a valid token of a user who holds p1 and a valid body
\* passed every check of a view that declares list[Schema]; the handler ran
\* once and returned two ORM objects, which are finalized as validated
C14_Witness ==
    /\ view.method = "post" /\ view.auth = AuthTrue
    /\ view.permissions = <<"p1">> /\ view.names # <<>>
    /\ view.output_type = OutputType("list", "Schema", FALSE)
    /\ calls[1].auth.user = SessionUser
    /\ calls[1].invoked = 1
    /\ calls[1].outcome = Returns(ListV(OrmSeq(2)))
    /\ calls[1].pc = "Finalized"
    /\ calls[1].response.finalized
    /\ calls[1].response.data =
          ListV([i \in 1..2 |-> DictV([f \in SchemaFields |-> IntV(i)])])

----------------------------------------------------------------------------
(* Claims about the compiled state *)

\* what registration writes on the view
CompiledState(v) ==
    <<v.sources, v.input_files, v.input_model, v.output_type, v.method,
      v.auth, v.permissions>>

\* C15: once the view is registered no step of any call changes what
\* registration wrote on it, and a step changes the locals of one call only;
\* a call that has ended is the call __call__ ends as on that request alone,
\* whatever the other call did meanwhile.
C15_CallsIsolated ==
    /\ [][/\ view.registered => CompiledState(view') = CompiledState(view)
          /\ \A s, t \in Slots :
                s # t => calls'[s] = calls[s] \/ calls'[t] = calls[t]]_vars
    /\ [](\A s \in Slots :
            calls[s].pc \in {"Finalized", "Raised"} =>
                \E outcome \in HandlerOutcomes \cup {NoOutcome} :
                    /\ calls[s].outcome \in {outcome, NoOutcome}
                    /\ calls[s] \in CallAlone(view, calls[s].request, outcome))

\* C15: two calls with different requests are under way, both past
\* extraction, each holding the value of its own request
C15_Witness ==
    /\ calls[1].request # calls[2].request
    /\ calls[1].pc = "Finalized" /\ calls[1].invoked = 1
    /\ calls[1].args = DictSet(EmptyDict, NameA, IntV(6))
    /\ calls[2].pc = "Finalized"
    /\ calls[2].response = ApiResponse(ValidationErrorData, 400)

\* the times x occurs in the sequence xs
Count(xs, x) == Cardinality({i \in 1..Len(xs) : xs[i] = x})

----------------------------------------------------------------------------
(* Claims about get_values *)

KeyNames == {NameA, NameB, FiltersName}
SubNames == {<<"t">>, <<"u">>, TitleName, AuthorIdName}

\* no name is written in two of the forms name, name[] and name[sub]
OneFormEach(data) ==
    \A i, j \in 1..Len(data.items) : \A name \in KeyNames, sub \in SubNames :
        /\ data.items[i].key = PlainKey(name) =>
              data.items[j].key \notin {ListKey(name), SubKey(name, sub)}
        /\ data.items[i].key = ListKey(name) =>
              data.items[j].key # SubKey(name, sub)

\* the single value of a key, or the list of all its values in order
AllValues(item) ==
    IF Len(item.vals) = 1 THEN item.vals[1] ELSE ListV(item.vals)

\* result is data with its bracketed keys expanded
Expands(data, result) ==
    /\ ~result.raised
    /\ \A i \in 1..Len(data.items) : \A name \in KeyNames :
          LET item == data.items[i]
              got  == DictGet(result.d, name)
          IN  /\ item.key = PlainKey(name) => got = AllValues(item)
              /\ item.key = ListKey(name) => got = ListV(item.vals)
              /\ \A sub \in SubNames :
                    item.key = SubKey(name, sub) =>
                        /\ got.k = "dict"
                        /\ DictGet(got.v, sub) = AllValues(item)

\* {"filters": {"title": "X", "author_id": "1"}}
FiltersValues ==
    DictSet(EmptyDict, FiltersName,
            DictV(DictSet(DictSet(EmptyDict, TitleName, Str1("X")),
                          AuthorIdName, Str1("1"))))

\* C17, as stated: get_values of a multi-map whose names are each written
\* in one form nests the value of name[sub] under sub in a map at name,
\* makes the values of name[] a list at name (the list name=a&name=b
\* gives), gives a plain key its single value or the list of all its values
\* in order, and extracts filters[title]=X&filters[author_id]=1 to
\* {"filters": {"title": "X", "author_id": "1"}}.
C17_BracketExpansion ==
    (direct.fn = "get_values" /\ direct.done /\ OneFormEach(direct.arg)) =>
        /\ Expands(direct.arg, direct.result)
        /\ direct.arg = FiltersForm => direct.result.d = FiltersValues

\* the same of the QueryDicts only: the query string and the form fields
C17_QueryDictExpansion ==
    (/\ direct.fn = "get_values" /\ direct.done
     /\ OneFormEach(direct.arg) /\ direct.arg.qd) =>
        /\ Expands(direct.arg, direct.result)
        /\ direct.arg = FiltersForm => direct.result.d = FiltersValues

\* C17: the form body filters[title]=X&filters[author_id]=1 is extracted to
\* the nested map
C17_Witness ==
    /\ direct.fn = "get_values" /\ direct.done
    /\ direct.arg = FiltersForm
    /\ direct.result = [raised |-> FALSE, d |-> FiltersValues]

\* C17: two files uploaded under the key a are extracted to the second
\* file alone
C17_FilesKeepLast ==
    /\ direct.fn = "get_values" /\ direct.done
    /\ direct.arg = [qd |-> FALSE,
                     items |-> <<[key |-> NameA, vals |-> DirectVals(2)]>>]
    /\ direct.result.d = DictSet(EmptyDict, NameA, DirectVals(2)[2])

----------------------------------------------------------------------------
(* Claims about the output conversion *)

\* the handler in slot 1 returned a collection of ORM objects, and output
\* conversion has run under a view that validates its output
ReturnedOrms ==
    /\ Ended({"return"})
    /\ calls[1].pc \in {"Finalized", "Raised"}
    /\ view.validate_output
    /\ calls[1].outcome.data.k \in {"list", "tuple", "set"}
    /\ \A order \in Orders(calls[1].outcome.data) :
          \A i \in 1..Len(order) : order[i] \in {Orm(n) : n \in 1..MaxItems}

\* the declared fields of an ORM object, as JSON
Declared(obj) == DictV([f \in SchemaFields |-> obj.v[f]])

\* C18, as stated: under list[Schema] a returned list of N ORM objects is
\* answered with the array of their declared fields, one object each, in
\* the order returned, and with the empty array when N = 0; under a set or
\* tuple of the Schema the converted collection is of the kind of the
\* collection returned.
C18_CollectionsConverted ==
    ReturnedOrms =>
        LET data == calls[1].outcome.data
        IN  /\ (view.output_type = OutputType("list", "Schema", FALSE)
                /\ data.k = "list") =>
                  /\ calls[1].pc = "Finalized"
                  /\ calls[1].response.data =
                        ListV([i \in 1..Len(data.v) |-> Declared(data.v[i])])
            /\ (view.output_type.origin \in {"set", "tuple"}
                /\ view.output_type.elem = "Schema"
                /\ data.k = view.output_type.origin) =>
                  \A order \in Orders(data) :
                      LET cv == convert_from_orm(data, view.output_type, order)
                      IN  cv.raised = "None" /\ cv.val.k = data.k

\* C18: under list[Schema] with no access checks the handler returned two
\* ORM objects, each with an attribute the Schema does not declare, and the
\* response holds their declared fields in order
C18_Witness ==
    /\ view.method = "None"
    /\ view.output_type = OutputType("list", "Schema", FALSE)
    /\ view.validate_output
    /\ calls[1].outcome = Returns(ListV(<<Orm(1), Orm(2)>>))
    /\ calls[1].pc = "Finalized"
    /\ calls[1].response.data =
          ListV(<<DictV(DictSet(EmptyDict, <<"n">>, IntV(1))),
                  DictV(DictSet(EmptyDict, <<"n">>, IntV(2)))>>)

\* C18: under set[Schema], the Schema not frozen, the handler returned a set
\* of two ORM objects and set(converted) raised TypeError
C18_SetRaises ==
    /\ view.output_type = OutputType("set", "Schema", FALSE)
    /\ view.validate_output
    /\ calls[1].outcome = Returns(SetV({Orm(1), Orm(2)}))
    /\ calls[1].pc = "Raised" /\ calls[1].raised = "TypeError"

----------------------------------------------------------------------------
(* Claims about sources_for_input *)

\* the source list the specification maps an explicit signifier to
Mapped(signifier) ==
    CASE signifier = "Path" -> <<"path">>
      [] signifier = "Query" -> <<"query">>
      [] signifier = "Body" -> <<"body">>
      [] signifier = "File" -> <<"file">>
      [] signifier = "QueryOrBody" -> <<"query", "body">>
      [] signifier = "PathOrQuery" -> <<"path", "query">>

\* File or File | None
IsFileType(ty) == ty \in {"File", "OptFile"}

\* sources_for_input has classified an annotation
Classified == direct.fn = "sources_for_input" /\ direct.done

\* what the claims say of BodyDirect and of the file types without a
\* signifier
BodyDirectAndBareFiles ==
    /\ direct.arg.sig = "BodyDirect" =>
          IF direct.arg.ty = "Schema"
          THEN ~direct.result.raised
               /\ direct.result.sources = <<"body_direct">>
          ELSE direct.result.raised
    /\ (direct.arg.sig = "none" /\ IsFileType(direct.arg.ty)) =>
          ~direct.result.raised /\ direct.result.sources = <<"file">>

\* C20, as stated: Path, Query, Body, File, QueryOrBody and PathOrQuery are
\* classified as their mapped source list whatever type they wrap;
\* BodyDirect is [body_direct] on the Schema and raises on any other type;
\* a file type without signifier is [file].
C20_SignifierMappedAnyType ==
    Classified =>
        /\ direct.arg.sig \in {"Path", "Query", "Body", "File", "QueryOrBody",
                               "PathOrQuery"} =>
              /\ ~direct.result.raised
              /\ direct.result.sources = Mapped(direct.arg.sig)
        /\ BodyDirectAndBareFiles

\* C20, amended: Path, Query, Body and File are classified as their mapped
\* source list whatever type they wrap; QueryOrBody and PathOrQuery are,
\* unless they wrap a file type, which is classified [file]; BodyDirect is
\* [body_direct] on the Schema and raises on any other type; a file type
\* without signifier is [file].
C20_SignifierMappedUnlessFile ==
    Classified =>
        /\ direct.arg.sig \in {"Path", "Query", "Body", "File"} =>
              /\ ~direct.result.raised
              /\ direct.result.sources = Mapped(direct.arg.sig)
        /\ direct.arg.sig \in {"QueryOrBody", "PathOrQuery"} =>
              /\ ~direct.result.raised
              /\ direct.result.sources =
                    IF IsFileType(direct.arg.ty) THEN <<"file">>
                    ELSE Mapped(direct.arg.sig)
        /\ BodyDirectAndBareFiles

\* C20: QueryOrBody wrapping File has been classified, as [file]
C20_Witness ==
    /\ Classified
    /\ direct.arg = [sig |-> "QueryOrBody", ty |-> "File"]
    /\ direct.result.sources = <<"file">>

----------------------------------------------------------------------------
(* Claims about the output converter as a function *)

\* lines 440-446 on one value: the data the converter for target_type makes
\* of value when value is iterated in order, ok FALSE when it raises
Converter(value, target_type, order) ==
    LET cv == convert_from_orm(value, target_type, order)
        ov == output_convert(cv.val, target_type, cv.items)
    IN  [ok |-> cv.raised = "None" /\ ov.ok, val |-> ov.val]

\* the plain mapping (or list of mappings) equivalent to an instance (or a
\* list of instances) of the Schema
AsMapping(value) ==
    IF value.k = "struct" THEN DictV(value.v)
    ELSE ListV([i \in 1..Len(value.v) |->
                   IF value.v[i].k = "struct" THEN DictV(value.v[i].v)
                   ELSE value.v[i]])

----------------------------------------------------------------------------
(* Claims about the token backend *)

\* the step is a call of TokenAuthBackend.authenticate
TokenCall == direct'.fn = "TokenAuthBackend.authenticate" /\ UNCHANGED <<db, now>>

\* the stored tokens the header names: "Token " followed by the key
Named(header) == {tok \in db.tokens : header = TokenPrefix \o tok.key}

\* C22: a call of TokenAuthBackend.authenticate returns the user of the
\* stored token whose key follows "Token " in the header when that token's
\* expires_at is later than the current time, and None in every other case:
\* no header, another prefix, an unknown key, an expired token.
C22_TokenUserIff ==
    [][TokenCall =>
          LET live == {tok \in Named(direct'.arg.v) : tok.expires_at > now}
          IN  IF live = {} THEN direct'.result.v = NoUser
              ELSE \A tok \in live : direct'.result.v = tok.user]_vars

\* C22: a call with the header of a stored token that has not expired
\* returned its user, while another token is stored
C22_Witness ==
    /\ direct.fn = "TokenAuthBackend.authenticate"
    /\ direct.arg.v = TokenPrefix \o TokenKey
    /\ direct.result.v \in Users
    /\ \E tok \in db.tokens : tok.key = OtherKey /\ tok.user # direct.result.v


----------------------------------------------------------------------------
(* Claims about keys that mix the plain and the bracketed forms *)

\* C23, as stated: get_values completes without raising on every multi-map,
\* the ones whose keys write one name both plain and bracketed included.
C23_ExtractionNeverRaises ==
    (direct.fn = "get_values" /\ direct.done) => ~direct.result.raised

\* C23: the query string a=x&a[t]=x makes get_values raise: the store under
\* a[t] finds the string of a where it needs a map (TypeError, line 237)
C23_MixedKeysRaise ==
    /\ direct.fn = "get_values" /\ direct.done
    /\ direct.arg = [qd |-> TRUE,
                     items |-> <<[key |-> PlainKey(NameA), vals |-> DirectVals(1)],
                                 [key |-> SubKey(NameA, <<"t">>),
                                  vals |-> DirectVals(1)]>>]
    /\ direct.result.raised


----------------------------------------------------------------------------
(* Claims about the source lists compile leaves *)

\* the parameters whose list, as sources_for_input gives it, names body
BodyReaders(input_types) ==
    {i \in 1..Len(input_types) :
        LET ann == input_types[i].annotation
        IN  \/ ann.sig = "Body"
            \/ ann.sig = "QueryOrBody" /\ ann.ty \notin {"File", "OptFile"}
            \/ ann.sig = "none" /\ ann.ty = "Schema"}

\* the list of a Schema parameter without a signifier: [body], promoted
\* when it is the only parameter reading the body
BareSchemaList(input_types) ==
    IF Cardinality(BodyReaders(input_types)) = 1
    THEN <<"body_direct">> ELSE <<"body">>

\* every parameter but the request-typed ones has a non-empty list, the
\* file parameters are the ones whose list names file, and the fields of the
\* input model are the others, in order
ListsAndSets(v) ==
    /\ \A i \in 1..Len(v.input_types) :
          LET name == v.input_types[i].name
              ann  == v.input_types[i].annotation
          IN  IF ann.ty = "HttpRequest"
              THEN name \notin DOMAIN v.sources
              ELSE /\ name \in DOMAIN v.sources
                   /\ v.sources[name] # <<>>
                   /\ name \in v.input_files <=> InSeq("file", v.sources[name])
    /\ {v.input_model[i].name : i \in 1..Len(v.input_model)}
          = DOMAIN v.sources \ v.input_files
    /\ Len(v.input_model) = Cardinality(DOMAIN v.sources \ v.input_files)

\* the list of every parameter without a signifier is other(type) unless the
\* type is a Schema or a collection
BareLists(v, other(_)) ==
    \A i \in 1..Len(v.input_types) :
        LET name == v.input_types[i].name
            ann  == v.input_types[i].annotation
        IN  (ann.sig = "none" /\ ann.ty # "HttpRequest") =>
                v.sources[name] =
                    IF ann.ty = "Schema" THEN BareSchemaList(v.input_types)
                    ELSE IF ann.ty \in CollectionTypes THEN <<"query_list">>
                    ELSE other(ann.ty)

PathThenQuery(ty) == <<"path", "query">>
FileElsePathThenQuery(ty) ==
    IF ty \in {"File", "OptFile"} THEN <<"file">> ELSE <<"path", "query">>

\* C24, as stated: after compile every parameter but the request-typed ones
\* has a non-empty source list; without a signifier a Schema has [body]
\* before promotion, a collection [query_list] and any other type
\* [path, query]; the file parameters are exactly those with file in their
\* list and the fields of the input model exactly the others.
C24_AnyOtherTypePathQuery ==
    view.registered => ListsAndSets(view) /\ BareLists(view, PathThenQuery)

\* C24, amended: the same, where without a signifier a file type (File or
\* File | None) has [file] and any other type that is neither a Schema nor
\* a collection has [path, query].
C24_SourceLists ==
    view.registered =>
        ListsAndSets(view) /\ BareLists(view, FileElsePathThenQuery)

\* C24: compile has run, twice, on a view of the request and an optional
\* file without a signifier
C24_Witness ==
    /\ view.registered
    /\ direct.fn = "compile" /\ direct.done
    /\ Len(view.input_types) = 2
    /\ view.input_types[2].annotation = [sig |-> "none", ty |-> "OptFile"]
    /\ DOMAIN view.sources = {NameA}
    /\ view.sources[NameA] = <<"file">>
    /\ view.input_files = {NameA}
    /\ view.input_model = <<>>


----------------------------------------------------------------------------
(* Claims about the JSON body *)

\* the value a JSON object gives the key that is name, letter for letter
JsonLiteral(items, name) ==
    IF \E i \in 1..Len(items) : items[i].key = name
    THEN LET i == CHOOSE i \in 1..Len(items) :
                    /\ items[i].key = name
                    /\ \A j \in i + 1..Len(items) : items[j].key # name
         IN  items[i].vals[1]
    ELSE NoneV

\* C25, as stated: the keys of a JSON body are merged as they are, without
\* bracket expansion: a parameter read from the body of a JSON request has
\* the value of the key that is its name, and none when no key is.
C25_JsonKeysLiteral ==
    (/\ calls[1].pc \in {"Dispatching", "ConvertingOutput", "Finalized", "Raised"}
     /\ calls[1].request.content_type = "application/json"
     /\ calls[1].request.json.k = "object"
     /\ NameA \in DOMAIN calls[1].values) =>
        calls[1].values[NameA]
            = JsonLiteral(calls[1].request.json.items, NameA)

\* C25: the JSON body {"a[t]": 6} gives the parameter a the map {"t": 6},
\* and the request is answered with the 400 of a failed validation
C25_JsonKeyExpanded ==
    /\ calls[1].pc = "Finalized"
    /\ calls[1].request.json
          = [k |-> "object", items |-> <<Item(SubKey(NameA, <<"t">>), IntV(6))>>]
    /\ calls[1].values = DictSet(EmptyDict, NameA,
                                 DictV(DictSet(EmptyDict, <<"t">>, IntV(6))))
    /\ calls[1].response = ApiResponse(ValidationErrorData, 400)


----------------------------------------------------------------------------
(* Claims about the order of the checks *)

\* the request names another method than the view's
WrongMethod(v, request) ==
    v.method # "None" /\ Upper(v.method) # request.method

\* the user of the stored, unexpired token the request's header names
Caller(request) ==
    IF \E tok \in db.tokens :
          /\ request.authorization = TokenPrefix \o tok.key
          /\ tok.expires_at > now
    THEN (CHOOSE tok \in db.tokens :
              request.authorization = TokenPrefix \o tok.key).user
    ELSE NoUser

LacksPermission(v, request) ==
    \E i \in 1..Len(v.permissions) :
        v.permissions[i] \notin db.perms[Caller(request)]

\* the JSON body gives the int parameter a a value that is no int
InvalidInput(v, request) ==
    /\ NameA \in DOMAIN v.sources
    /\ request.content_type = "application/json"
    /\ request.json.k = "object"
    /\ request.json.items[1] \in {Item(NameA, Str1("x")),
                                  Item(SubKey(NameA, <<"t">>), IntV(6))}

\* C26: the response is decided by the first check that fails, in the
\* order method (405), authentication (401), permissions (403), input
\* validation (400), handler: the step of lines 307-333 answers 405 on a
\* wrong method whoever calls, else 401 when a guarded view finds no user,
\* else 403 when the user lacks a permission, whatever the input is, and
\* leaves the request's data unextracted; only a request that passes is
\* extracted, a 400 answers its invalid input, and the handler runs on none
\* of these.
C26_CheckOrder ==
    [][/\ (calls[1].pc = "Received" /\ calls'[1].pc # "Received") =>
            LET v == view
                request == calls[1].request
                guarded == Truthy(v.auth) \/ v.permissions # <<>>
                after == calls'[1]
                answers(status) ==
                    /\ after.pc = "Finalized"
                    /\ after.response.status = status
            IN  /\ after.values = EmptyDict /\ after.invoked = 0
                /\ IF WrongMethod(v, request) THEN answers(405)
                   ELSE IF guarded /\ Caller(request) = NoUser
                   THEN answers(401)
                   ELSE IF LacksPermission(v, request) THEN answers(403)
                   ELSE after.pc = "Extracting" /\ after.response = NoResponse
       /\ (calls[1].pc = "Extracting" /\ calls'[1].pc # "Extracting"
           /\ InvalidInput(view, calls[1].request)) =>
              /\ calls'[1].pc = "Finalized"
              /\ calls'[1].response.status = 400
              /\ calls'[1].invoked = 0
       /\ calls'[1].invoked > calls[1].invoked =>
              calls[1].pc = "Dispatching" /\ calls[1].response = NoResponse
      ]_vars

\* C26: a POST-only view that asks for authentication and a permission has
\* answered 403 to a POST with invalid input from a user whose token is
\* good and who lacks the permission
C26_Witness ==
    /\ view.method = "post" /\ Truthy(view.auth) /\ view.permissions = <<"p1">>
    /\ calls[1].request.method = "POST"
    /\ InvalidInput(view, calls[1].request)
    /\ calls[1].auth.user = SessionUser
    /\ calls[1].pc = "Finalized"
    /\ calls[1].response.status = 403
    /\ calls[1].values = EmptyDict


----------------------------------------------------------------------------
(* Claims about the file parameters *)

\* the file the request uploads under name, None when it uploads none:
\* Django fills request.FILES for a multipart POST, and lines 343-349 parse
\* the multipart body of a PUT or PATCH
Uploaded(request, name) ==
    IF /\ request.content_type = "multipart/form-data"
       /\ request.method \in {"POST", "PUT", "PATCH"}
       /\ \E i \in 1..Len(request.files) : request.files[i].key = name
    THEN LET i == CHOOSE i \in 1..Len(request.files) :
                    /\ request.files[i].key = name
                    /\ \A j \in i + 1..Len(request.files) :
                          request.files[j].key # name
         IN  request.files[i].vals[Len(request.files[i].vals)]
    ELSE NoneV

----------------------------------------------------------------------------
(* Claims about body_direct *)

\* the fields the request's body holds: the keys of a JSON object, or the
\* fields of a form
BodyItems(request) ==
    IF request.content_type = "application/json"
    THEN IF request.json.k = "object" THEN request.json.items ELSE <<>>
    ELSE IF request.content_type \in FormTypes
    THEN request.form
    ELSE <<>>

\* the whole body as a map
WholeBody(request) ==
    LET items == BodyItems(request)
    IN  [key \in {items[i].key : i \in 1..Len(items)} |->
            JsonLiteral(items, key)]

\* the resolution of name reaches body_direct: the sources before it in its
\* list do not hold the name
ReachesBodyDirect(v, request, name) ==
    \E i \in 1..Len(v.sources[name]) :
        /\ v.sources[name][i] = "body_direct"
        /\ \A j \in 1..i - 1 :
              /\ v.sources[name][j] \in {"path", "query"}
              /\ v.sources[name][j] = "path" => name \notin DOMAIN request.kwargs
              /\ v.sources[name][j] = "query" =>
                    \A k \in 1..Len(request.GET) : request.GET[k].key # name

\* C28: a parameter whose resolution reaches body_direct is bound to the
\* whole body map, the empty map when the request has no body, and is never
\* absent: the handler is not left to its default, and a body that lacks a
\* required field of the Schema is answered with the 400 of a failed
\* validation, the empty body included.
C28_BodyDirectBound ==
    \A name \in DOMAIN view.sources :
        (/\ name \in DOMAIN calls[1].values
         /\ ReachesBodyDirect(view, calls[1].request, name)) =>
            /\ calls[1].values[name] = DictV(WholeBody(calls[1].request))
            /\ BodyItems(calls[1].request) = <<>> =>
                  calls[1].values[name] = DictV(EmptyDict)
            /\ (\E f \in SchemaFields : f \notin DOMAIN WholeBody(calls[1].request)) =>
                  /\ calls[1].pc = "Finalized"
                  /\ calls[1].response = ApiResponse(ValidationErrorData, 400)
                  /\ calls[1].invoked = 0
            /\ calls[1].invoked = 1 =>
                  /\ name \in DOMAIN calls[1].view_kwargs
                  /\ calls[1].args[name] # DefaultV

\* C28: a request without a body to a view whose only parameter, a Schema
\* with a default, was promoted to body_direct is answered with the 400 of
\* a failed validation, the parameter bound to the empty map
C28_Witness ==
    /\ view.registered
    /\ view.input_types = <<[name |-> NameA,
                             annotation |-> [sig |-> "none", ty |-> "Schema"]]>>
    /\ view.sources[NameA] = <<"body_direct">>
    /\ NameA \in view.defaults
    /\ calls[1].request.content_type = ""
    /\ calls[1].values = DictSet(EmptyDict, NameA, DictV(EmptyDict))
    /\ calls[1].response = ApiResponse(ValidationErrorData, 400)
    /\ calls[1].invoked = 0


----------------------------------------------------------------------------
(* Claims about the OpenAPI operation *)

\* the call was answered by one of the view's own checks, not by the handler
AnsweredByChecks(c) == c.pc = "Finalized" /\ c.invoked = 0

\* C29, as stated: the operation generated for a view documents every error
\* status the view's checks answer with, 400, 401 and 403, and carries a
\* security requirement whenever the view turns a caller away for want of
\* authentication.
C29_ChecksDocumented ==
    (/\ direct.fn = "_generate_operation"
     /\ AnsweredByChecks(calls[1])
     /\ calls[1].response.status \in {400, 401, 403}) =>
        /\ calls[1].response.status \in direct.result.responses
        /\ calls[1].response.status = 401 => direct.result.security # <<>>

\* C29: a view with permissions and auth=False has answered 401 to a caller
\* without a user, and its operation documents neither a 401 response nor a
\* security requirement
C29_PermissionsOnlyUndocumented ==
    /\ direct.fn = "_generate_operation"
    /\ view.auth = AuthFalse /\ view.permissions = <<"p1">>
    /\ view.method = "None"
    /\ AnsweredByChecks(calls[1])
    /\ calls[1].response = ApiResponse([error |-> "authentication_required"], 401)
    /\ direct.result = [responses |-> {200, 400, 403}, security |-> <<>>]


----------------------------------------------------------------------------
(* Claims about the expiry of tokens *)

\* C30, as stated: the backend accepts a stored token exactly when its
\* is_expired is False, the instant now = expires_at included: a call with
\* the header of a stored token returns the token's user when is_expired is
\* False at the time of the call and None when it is True.
C30_AcceptedIffNotExpired ==
    [][TokenCall =>
          \A tok \in Named(direct'.arg.v) :
              direct'.result.v = tok.user <=> ~is_expired(tok, now)]_vars

\* C30: a call made at the instant a stored token expires returned None,
\* while is_expired of that token was False
C30_RejectedAtExpiry ==
    /\ direct.fn = "TokenAuthBackend.authenticate"
    /\ direct.result.v = NoUser
    /\ \E tok \in Named(direct.arg.v) :
          /\ tok.expires_at = direct.at
          /\ ~is_expired(tok, direct.at)

====
